---- MODULE Spec2Model ----
(***************************************************************************)
(* Model of the gpt-wolf signal -> ranking -> position-lifecycle pipeline. *)
(*                                                                         *)
(* Numbers.  Prices are integers in units of 1e-7; market and signal       *)
(* prices are multiples of 1000, so that price * 0.997, price * 1.003 and  *)
(* the liquidation formula are exact integers.  100.0 is 1000000000.       *)
(* An optional numeric field that is undefined is written Undef (0): the   *)
(* code reads every such field through its truthiness (x || d, !x), which  *)
(* treats undefined, NaN and 0 alike.  Time is in minutes.                 *)
(***************************************************************************)
EXTENDS Integers, Sequences, FiniteSets, TLC

VARIABLES
    marketState,      \* symbol -> partial MarketSummary
    activePositions,  \* symbol -> sequence of position references (order ids)
    actKeys,          \* Object.keys(activePositions), in insertion order
    heap,             \* order id -> AdvancedPosition object (live references)
    lastSignals,      \* symbol -> "LONG" | "SHORT" | "none"
    lastOpened,       \* symbol -> direction of the last signal whose order opened a position
    pending,          \* executeTrade promises not yet settled
    monitors,         \* suspended monitorActivePositions calls (microtask queue)
    draining,         \* TRUE while the microtask queue is being drained
    clock,            \* Date.now()
    lastOp,           \* the operation that produced this state
    evals,            \* exit evaluations made by the last step
    closes,           \* close events emitted by the last step
    candidates,       \* input of the ranker
    maxSignals,       \* maxSignals argument of the ranker
    ranked,           \* output of the ranker
    markets,          \* the market scan handed to the strategies of a tick
    config,           \* the strategies' configuration
    emitted,          \* the signals the last tick of the trading system produced
    logged            \* what the last step logged: the errors of a tick, the shutdown report

vars == <<marketState, activePositions, actKeys, heap, lastSignals, lastOpened, pending,
          monitors, draining, clock, lastOp, evals, closes,
          candidates, maxSignals, ranked, markets, config, emitted, logged>>

lifeVars == <<marketState, activePositions, actKeys, heap, lastSignals, lastOpened, pending,
              monitors, draining, lastOp, evals, closes>>

rankVars == <<candidates, maxSignals, ranked>>

scanVars == <<markets, config, emitted, logged>>

-----------------------------------------------------------------------------
(* Bounds of the model *)

MaxOrders == 2           \* orders in flight plus position objects alive at once
MaxBatch == 2            \* websocket messages dispatched in one macrotask
MaxSignalsPerEval == 1   \* signals one strategyEngine.evaluate call returns
MaxClock == 32           \* last minute the clock reaches

-----------------------------------------------------------------------------
(* Program constants *)

Undef == 0
TrailingPerMille == 3            \* trailingPerc = 0.003
MmrPerMille == 5                 \* mmr = 0.005
LiquidationBufferPerMille == 3   \* liquidationBuffer = 0.003
VolatilityThreshold == 2         \* |change1m| > 0.02, in units of 0.01
LiquidationClusterThreshold == 5000000
DefaultTimeout == 30             \* 30 * 60 * 1000 ms, in minutes

\* The first two of config.mainSymbols.
MainSymbols == <<"BTCUSDT", "ETHUSDT">>

Symbols == {MainSymbols[i] : i \in 1..Len(MainSymbols)}

Max(a, b) == IF a >= b THEN a ELSE b

Min(a, b) == IF a <= b THEN a ELSE b

-----------------------------------------------------------------------------
(* Inputs *)

\* Prices a ticker update may carry; Undef is parseFloat of a missing lastPrice.
\* 98.7955 is 98.5 * 1.003, the pre-liquidation level of a LONG at 100 with leverage
\* 50; 98.6 lies between that level and the liquidation price.
Prices(symbol) ==
    IF symbol = MainSymbols[1]
    THEN {Undef, 986000000, 987955000, 998000000, 1000000000, 1010000000}
    ELSE {Undef, 1000000000}

\* Signals the strategy engine may return for a symbol (entry 100, leverage 50).
TradeSignals ==
    { [direction |-> "LONG", entryPrice |-> 1000000000, targetPrice |-> 1010000000,
       stopLoss |-> 980000000, leverage |-> 50],
      [direction |-> "SHORT", entryPrice |-> 1000000000, targetPrice |-> 990000000,
       stopLoss |-> 1010000000, leverage |-> 50] }

TimeSteps == {31}

-----------------------------------------------------------------------------
(* Risk / leverage policy *)

\* entry * (1 - 1/leverage + mmr) for LONG, entry * (1 + 1/leverage - mmr) for SHORT;
\* exact when 1000 * leverage divides entry.
calcLiquidationPrice(entry, leverage, direction) ==
    IF direction = "LONG"
    THEN (entry \div (1000 * leverage)) * (1000 * leverage - 1000 + MmrPerMille * leverage)
    ELSE (entry \div (1000 * leverage)) * (1000 * leverage + 1000 - MmrPerMille * leverage)

\* SignalExecutor.updateTrailingStop of the strategies package: distances in per
\* mille, the stop moves only once the profit reaches the activation distance.
SignalExecutorUpdateTrailingStop(currentPrice, entryPrice, direction, currentStopLoss, activationDistance, trailDistance) ==
    LET cur    == currentPrice \div 1000
        entry  == entryPrice \div 1000
        profit == IF direction = "LONG" THEN cur - entry ELSE entry - cur
        newStopLoss == IF direction = "LONG" THEN cur * (1000 - trailDistance)
                       ELSE cur * (1000 + trailDistance)
    IN  IF profit * 1000 < activationDistance * entry THEN currentStopLoss
        ELSE IF direction = "LONG" THEN Max(currentStopLoss, newStopLoss)
        ELSE Min(currentStopLoss, newStopLoss)

updateTrailingStopNoRatchet(pos, mkt) ==
    IF mkt.price = Undef \/ pos.entryPrice = Undef THEN pos
    ELSE LET newSL == IF pos.direction = "LONG"
                      THEN (mkt.price \div 1000) * (1000 - TrailingPerMille)
                      ELSE (mkt.price \div 1000) * (1000 + TrailingPerMille)
         IN  [pos EXCEPT !.trailingStop = newSL, !.stopLoss = newSL]

updateTrailingStop(pos, mkt) ==
    IF mkt.price = Undef \/ pos.entryPrice = Undef THEN pos
    ELSE IF pos.direction = "LONG"
    THEN LET newSL == (mkt.price \div 1000) * (1000 - TrailingPerMille)
         IN  IF pos.trailingStop = Undef \/ newSL > pos.trailingStop
             THEN [pos EXCEPT !.trailingStop = newSL,
                              !.stopLoss = Max(pos.stopLoss, newSL)]
             ELSE pos
    ELSE LET newSL == (mkt.price \div 1000) * (1000 + TrailingPerMille)
         IN  IF pos.trailingStop = Undef \/ newSL < pos.trailingStop
             THEN [pos EXCEPT !.trailingStop = newSL,
                              !.stopLoss = IF pos.stopLoss = Undef THEN newSL
                                           ELSE Min(pos.stopLoss, newSL)]
             ELSE pos

-----------------------------------------------------------------------------
(* Exit conditions of monitorActivePositions, one operator per check *)

ExitOrder == <<"take_profit", "stop_loss", "opposite_signal", "pre_liquidation",
               "volatility_spike", "liquidation_cluster", "timeout">>

Abs(x) == IF x < 0 THEN -x ELSE x

TakeProfitHit(pos, mkt) ==
    \/ pos.direction = "LONG" /\ mkt.price >= pos.targetPrice
    \/ pos.direction = "SHORT" /\ mkt.price <= pos.targetPrice

StopLossHit(pos, mkt) ==
    \/ pos.direction = "LONG" /\ mkt.price <= pos.stopLoss
    \/ pos.direction = "SHORT" /\ mkt.price >= pos.stopLoss

\* A monitor without the opposite-signal exit.
OppositeSignalIgnored(pos, lastSignal) == FALSE

OppositeSignal(pos, lastSignal) ==
    lastSignal # "none" /\ lastSignal # pos.direction

\* liq * (1 + liquidationBuffer) and liq * (1 - liquidationBuffer) as the doubles
\* of the code evaluate them, for comparison with prices on the grid.  The product
\* 98.5 * (1 + 0.003) evaluates to 98.79549999999999, below the decimal 98.7955: it
\* is written one unit under the exact product, so that the price 98.7955 is above
\* it.  No other product of the model meets a price of the model, and the exact
\* value stands for those.
GuardLevel(liq, perMille) ==
    (liq \div 1000) * perMille - (IF liq = 985000000 /\ perMille = 1003 THEN 1 ELSE 0)

PreLiquidation(pos, mkt) ==
    LET liq == calcLiquidationPrice(pos.entryPrice, pos.leverage, pos.direction)
    IN  \/ pos.direction = "LONG"
           /\ mkt.price <= GuardLevel(liq, 1000 + LiquidationBufferPerMille)
        \/ pos.direction = "SHORT"
           /\ mkt.price >= GuardLevel(liq, 1000 - LiquidationBufferPerMille)

VolatilitySpike(mkt) ==
    mkt.change1m # Undef /\ Abs(mkt.change1m) > VolatilityThreshold

LiquidationCluster(mkt) ==
    mkt.liquidations24h # Undef /\ mkt.liquidations24h > LiquidationClusterThreshold

TimedOutInSeconds(pos, now) ==
    LET openTime == IF pos.openTime # Undef THEN pos.openTime ELSE now
        timeout == IF pos.inactivityTimeoutMs # Undef THEN pos.inactivityTimeoutMs
                   ELSE DefaultTimeout * 60
    IN  now - openTime > timeout

TimedOut(pos, now) ==
    LET openTime == IF pos.openTime # Undef THEN pos.openTime ELSE now
        timeout == IF pos.inactivityTimeoutMs # Undef THEN pos.inactivityTimeoutMs
                   ELSE DefaultTimeout
    IN  now - openTime > timeout

ExitReasonGuardFirst(pos, mkt, lastSignal, now) ==
    IF PreLiquidation(pos, mkt) THEN "pre_liquidation"
    ELSE IF TakeProfitHit(pos, mkt) THEN "take_profit"
    ELSE IF StopLossHit(pos, mkt) THEN "stop_loss"
    ELSE IF OppositeSignal(pos, lastSignal) THEN "opposite_signal"
    ELSE IF VolatilitySpike(mkt) THEN "volatility_spike"
    ELSE IF LiquidationCluster(mkt) THEN "liquidation_cluster"
    ELSE IF TimedOut(pos, now) THEN "timeout"
    ELSE "none"

\* The if / continue chain of the monitor, on the position after the trailing update.
ExitReason(pos, mkt, lastSignal, now) ==
    IF TakeProfitHit(pos, mkt) THEN "take_profit"
    ELSE IF StopLossHit(pos, mkt) THEN "stop_loss"
    ELSE IF OppositeSignal(pos, lastSignal) THEN "opposite_signal"
    ELSE IF PreLiquidation(pos, mkt) THEN "pre_liquidation"
    ELSE IF VolatilitySpike(mkt) THEN "volatility_spike"
    ELSE IF LiquidationCluster(mkt) THEN "liquidation_cluster"
    ELSE IF TimedOut(pos, now) THEN "timeout"
    ELSE "none"

\* Fields the chain writes on its way: liquidationPrice once the pre-liquidation
\* check is reached, openTime once the timeout check is reached, maxFavorablePrice
\* when nothing fired.
EvalPosition(pos, mkt, lastSignal, now) ==
    LET p1 == updateTrailingStop(pos, mkt)
        r  == ExitReason(p1, mkt, lastSignal, now)
        p2 == [p1 EXCEPT !.liquidationPrice =
                   calcLiquidationPrice(p1.entryPrice, p1.leverage, p1.direction)]
        p3 == [p2 EXCEPT !.openTime = IF p2.openTime # Undef THEN p2.openTime ELSE now]
        p4 == IF \/ p3.direction = "LONG"
                    /\ (p3.maxFavorablePrice = Undef \/ mkt.price > p3.maxFavorablePrice)
                 \/ p3.direction = "SHORT"
                    /\ (p3.maxFavorablePrice = Undef \/ mkt.price < p3.maxFavorablePrice)
              THEN [p3 EXCEPT !.maxFavorablePrice = mkt.price]
              ELSE p3
    IN  [reason |-> r,
         pos |-> CASE r \in {"take_profit", "stop_loss", "opposite_signal"} -> p1
                   [] r \in {"pre_liquidation", "volatility_spike", "liquidation_cluster"} -> p2
                   [] r = "timeout" -> p3
                   [] OTHER -> p4]

\* What each check would say on its own, for the record of the evaluation.
HoldingConds(pos, mkt, lastSignal, now) ==
    LET p1 == updateTrailingStop(pos, mkt)
    IN  {r \in {"take_profit"} : TakeProfitHit(p1, mkt)}
        \cup {r \in {"stop_loss"} : StopLossHit(p1, mkt)}
        \cup {r \in {"opposite_signal"} : OppositeSignal(p1, lastSignal)}
        \cup {r \in {"pre_liquidation"} : PreLiquidation(p1, mkt)}
        \cup {r \in {"volatility_spike"} : VolatilitySpike(mkt)}
        \cup {r \in {"liquidation_cluster"} : LiquidationCluster(mkt)}
        \cup {r \in {"timeout"} : TimedOut(p1, now)}

-----------------------------------------------------------------------------
(* closePosition: removes the FIRST position of the symbol with the direction *)

FindIndex(ids, h, direction) ==
    LET hits == {i \in 1..Len(ids) : h[ids[i]].direction = direction}
    IN  IF hits = {} THEN 0 ELSE CHOOSE i \in hits : \A j \in hits : i <= j

RemoveAt(seq, i) == SubSeq(seq, 1, i - 1) \o SubSeq(seq, i + 1, Len(seq))

closePosition(act, h, symbol, direction) ==
    LET idx == FindIndex(act[symbol], h, direction)
    IN  IF idx = 0
        THEN [act |-> act, removed |-> 0, entryPrice |-> Undef, openTime |-> Undef]
        ELSE [act |-> [act EXCEPT ![symbol] = RemoveAt(act[symbol], idx)],
              removed |-> act[symbol][idx],
              entryPrice |-> h[act[symbol][idx]].entryPrice,
              openTime |-> h[act[symbol][idx]].openTime]

-----------------------------------------------------------------------------
(* monitorActivePositions: runs until its next await closePosition(...) *)

RECURSIVE RunMonitor(_, _, _, _, _)
RunMonitor(h, act, m, mkt, last) ==
    IF m.pi > Len(m.copy)
    THEN IF m.ki >= Len(m.keys)
         THEN [heap |-> h, act |-> act, mon |-> m, done |-> TRUE,
               evals |-> <<>>, closes |-> <<>>]
         ELSE RunMonitor(h, act,
                         [m EXCEPT !.ki = m.ki + 1, !.pi = 1,
                                   !.copy = act[m.keys[m.ki + 1]]],
                         mkt, last)
    ELSE LET id     == m.copy[m.pi]
             symbol == m.keys[m.ki]
             mk     == mkt[symbol]
             next   == [m EXCEPT !.pi = m.pi + 1]
         IN  IF mk.price = Undef
             THEN RunMonitor(h, act, next, mkt, last)
             ELSE LET ev == EvalPosition(h[id], mk, last[symbol], m.now)
                      h1 == [h EXCEPT ![id] = ev.pos]
                      rec == [id |-> id, symbol |-> symbol,
                              direction |-> h[id].direction,
                              entryPrice |-> h[id].entryPrice,
                              leverage |-> h[id].leverage,
                              elapsed |-> m.now - h[id].openTime,
                              price |-> mk.price,
                              conds |-> HoldingConds(h[id], mk, last[symbol], m.now),
                              reason |-> ev.reason]
                  IN  IF ev.reason = "none"
                      THEN LET r == RunMonitor(h1, act, next, mkt, last)
                           IN  [r EXCEPT !.evals = <<rec>> \o r.evals]
                      ELSE LET c == closePosition(act, h1, symbol, ev.pos.direction)
                           IN  [heap |-> h1, act |-> c.act, mon |-> next, done |-> FALSE,
                                evals |-> <<rec>>,
                                closes |-> << [symbol |-> symbol,
                                               direction |-> ev.pos.direction,
                                               reason |-> ev.reason,
                                               closePrice |-> mk.price,
                                               evaluated |-> id,
                                               removed |-> c.removed,
                                               entryPrice |-> c.entryPrice,
                                               duration |-> clock - c.openTime] >>]

\* Position objects still referenced: by the open set or by a suspended monitor.
RECURSIVE SeqIds(_)
SeqIds(seq) == IF seq = <<>> THEN {} ELSE {Head(seq)} \cup SeqIds(Tail(seq))

LiveIds(act, mons) ==
    UNION {SeqIds(act[s]) : s \in Symbols}
    \cup UNION {SeqIds(SubSeq(mons[i].copy, mons[i].pi, Len(mons[i].copy))) :
                i \in 1..Len(mons)}

Collect(h, act, mons) == [id \in (DOMAIN h) \cap LiveIds(act, mons) |-> h[id]]

-----------------------------------------------------------------------------
(* handleWebSocketUpdate *)

SignalLists == UNION {[1..n -> TradeSignals] : n \in 0..MaxSignalsPerEval}

\* Lines 280-315: one signal of one symbol.  st = [act, keys, last, pend].
AcceptSignal(st, symbol, sig) ==
    LET keys == IF \E i \in 1..Len(st.keys) : st.keys[i] = symbol THEN st.keys
                ELSE Append(st.keys, symbol)
        alreadyActive == \E i \in 1..Len(st.act[symbol]) :
                             heap[st.act[symbol][i]].direction = sig.direction
    IN  IF alreadyActive
        THEN [st EXCEPT !.keys = keys]
        ELSE [st EXCEPT !.keys = keys,
                        !.last[symbol] = sig.direction,
                        !.pend = Append(st.pend, [symbol |-> symbol, sig |-> sig])]

RECURSIVE AcceptSignals(_, _, _, _)
AcceptSignals(st, symbol, sigs, j) ==
    IF j > Len(sigs) THEN st
    ELSE AcceptSignals(AcceptSignal(st, symbol, sigs[j]), symbol, sigs, j + 1)

\* An evaluation that does not look at the price of the market state.
RECURSIVE EvaluateSymbolsUnpriced(_, _, _, _)
EvaluateSymbolsUnpriced(st, mkt, signals, i) ==
    IF i > Len(MainSymbols) THEN st
    ELSE EvaluateSymbolsUnpriced(AcceptSignals(st, MainSymbols[i], signals[MainSymbols[i]], 1),
                                 mkt, signals, i + 1)

\* Lines 265-318: every main symbol whose market state has a price.
RECURSIVE EvaluateSymbols(_, _, _, _)
EvaluateSymbols(st, mkt, signals, i) ==
    IF i > Len(MainSymbols) THEN st
    ELSE LET symbol == MainSymbols[i]
         IN  IF mkt[symbol].price = Undef
             THEN EvaluateSymbols(st, mkt, signals, i + 1)
             ELSE EvaluateSymbols(AcceptSignals(st, symbol, signals[symbol], 1),
                                  mkt, signals, i + 1)

\* Lines 231-262: a ticker update stores the parsed price, a liquidation update
\* stores nothing the monitor reads.
ApplyUpdate(topic, symbol, price) ==
    IF topic = "tickers" THEN [marketState EXCEPT ![symbol].price = price]
    ELSE marketState

handleWebSocketUpdate(topic, symbol, price, signals) ==
    /\ ~draining
    /\ Len(monitors) < MaxBatch
    /\ \E mkt \in {ApplyUpdate(topic, symbol, price)} :
       \E st \in {EvaluateSymbols([act |-> activePositions, keys |-> actKeys,
                                   last |-> lastSignals, pend |-> pending],
                                  mkt, signals, 1)} :
       \E r \in {RunMonitor(heap, st.act,
                            [now |-> clock, keys |-> st.keys, ki |-> 0, copy |-> <<>>,
                             pi |-> 1],
                            mkt, st.last)} :
       \E mons \in {IF r.done THEN monitors ELSE Append(monitors, r.mon)} :
           /\ Len(st.pend) + Cardinality(DOMAIN heap) <= MaxOrders
           /\ marketState' = mkt
           /\ actKeys' = st.keys
           /\ lastSignals' = st.last
           /\ pending' = st.pend
           /\ activePositions' = r.act
           /\ monitors' = mons
           /\ heap' = Collect(r.heap, r.act, mons)
           /\ evals' = r.evals
           /\ closes' = r.closes
    /\ draining' = FALSE
    /\ lastOp' = "update"
    /\ UNCHANGED <<lastOpened, clock, rankVars, scanVars>>

\* The continuation of the oldest suspended monitor (await closePosition returned).
ResumeMonitor ==
    /\ monitors # <<>>
    /\ \E r \in {RunMonitor(heap, activePositions, Head(monitors), marketState,
                            lastSignals)} :
       \E mons \in {IF r.done THEN Tail(monitors) ELSE Append(Tail(monitors), r.mon)} :
           /\ activePositions' = r.act
           /\ monitors' = mons
           /\ heap' = Collect(r.heap, r.act, mons)
           /\ evals' = r.evals
           /\ closes' = r.closes
           /\ draining' = (mons # <<>>)
    /\ lastOp' = "resume"
    /\ UNCHANGED <<marketState, actKeys, lastSignals, lastOpened, pending, clock, rankVars,
                   scanVars>>

-----------------------------------------------------------------------------
(* executeTrade settles: the .then callback of lines 299-314 *)

FreeIds == (1..MaxOrders) \ DOMAIN heap

\* What the gateway answers to submitOrder.
Outcomes == {"filled", "rejected", "exception"}

\* Lines 324-350: retCode 0 is a success with the exchange's order id, any other
\* retCode and any exception a failure.
executeTrade(outcome, orderId) ==
    IF outcome = "filled" THEN [success |-> TRUE, orderId |-> orderId]
    ELSE [success |-> FALSE, orderId |-> Undef]

NewPosition(sig, orderId, now) ==
    [direction |-> sig.direction, orderId |-> orderId, entryPrice |-> sig.entryPrice,
     targetPrice |-> sig.targetPrice, stopLoss |-> sig.stopLoss, trailingStop |-> Undef,
     openTime |-> now, maxFavorablePrice |-> Undef, liquidationPrice |-> Undef,
     inactivityTimeoutMs |-> Undef, leverage |-> sig.leverage]

\* Lines 299-314: the callback pushes a position only for a successful result.
OrderCallbackPushesAlways(o, result, id) ==
    [act  |-> [activePositions EXCEPT ![o.symbol] = Append(@, id)],
     heap |-> [n \in DOMAIN heap \cup {id} |->
                  IF n = id THEN NewPosition(o.sig, id, clock) ELSE heap[n]]]

OrderCallback(o, result, id) ==
    IF result.success /\ result.orderId # Undef
    THEN [act  |-> [activePositions EXCEPT ![o.symbol] = Append(@, id)],
          heap |-> [n \in DOMAIN heap \cup {id} |->
                       IF n = id THEN NewPosition(o.sig, id, clock) ELSE heap[n]]]
    ELSE [act |-> activePositions, heap |-> heap]

OrderSettled(i, outcome) ==
    /\ monitors = <<>>
    /\ i \in 1..Len(pending)
    /\ outcome = "filled" => FreeIds # {}
    /\ \E id \in {IF FreeIds = {} THEN Undef
                  ELSE CHOOSE n \in FreeIds : \A k \in FreeIds : n <= k} :
       \E c \in {OrderCallback(pending[i], executeTrade(outcome, id), id)} :
           /\ activePositions' = c.act
           /\ heap' = c.heap
           /\ lastOpened' = IF c.act # activePositions
                            THEN [lastOpened EXCEPT ![pending[i].symbol] = pending[i].sig.direction]
                            ELSE lastOpened
    /\ lastOp' = IF outcome = "filled" THEN "order_ok" ELSE "order_failed"
    /\ pending' = RemoveAt(pending, i)
    /\ evals' = <<>>
    /\ closes' = <<>>
    /\ UNCHANGED <<marketState, actKeys, lastSignals, monitors, draining, clock, rankVars, scanVars>>

\* Time passes between two macrotasks.
Tick(dt) ==
    /\ monitors = <<>>
    /\ clock + dt <= MaxClock
    /\ clock' = clock + dt
    /\ lastOp' = "tick"
    /\ evals' = <<>>
    /\ closes' = <<>>
    /\ UNCHANGED <<marketState, activePositions, actKeys, heap, lastSignals, lastOpened,
                   pending,
                   monitors, draining, rankVars, scanVars>>

-----------------------------------------------------------------------------

Init ==
    /\ marketState = [s \in Symbols |-> [price |-> Undef, change1m |-> Undef,
                                         liquidations24h |-> Undef]]
    /\ activePositions = [s \in Symbols |-> <<>>]
    /\ actKeys = <<>>
    /\ heap = <<>>
    /\ lastSignals = [s \in Symbols |-> "none"]
    /\ lastOpened = [s \in Symbols |-> "none"]
    /\ pending = <<>>
    /\ monitors = <<>>
    /\ draining = FALSE
    /\ clock = 1
    /\ lastOp = "init"
    /\ evals = <<>>
    /\ closes = <<>>
    /\ candidates = <<>>
    /\ maxSignals = 0
    /\ ranked = <<>>
    /\ markets = <<>>
    /\ config = [maxLeverage |-> 100]
    /\ emitted = <<>>
    /\ logged = <<>>

\* A specification feeds the handler from the symbols it lets the exchange report.
Updates(symbols) ==
    \E symbol \in symbols, signals \in [symbols -> SignalLists] :
        \E sigs \in {[s \in Symbols |-> IF s \in symbols THEN signals[s] ELSE <<>>]} :
            \/ \E price \in Prices(symbol) :
                   handleWebSocketUpdate("tickers", symbol, price, sigs)
            \/ handleWebSocketUpdate("liquidation", symbol, Undef, sigs)

\* The process runs until the SIGINT handler calls process.exit(0).
Running == lastOp # "shutdown"

\* SIGINT handler, the forEach over Object.keys(activePositions) and over each
\* symbol's positions: one logged line per open position.
RECURSIVE ShutdownLines(_, _, _)
ShutdownLines(keys, act, h) ==
    IF keys = <<>> THEN <<>>
    ELSE [i \in 1..Len(act[Head(keys)]) |->
             [symbol |-> Head(keys), direction |-> h[act[Head(keys)][i]].direction,
              entryPrice |-> h[act[Head(keys)][i]].entryPrice]]
         \o ShutdownLines(Tail(keys), act, h)

\* Object.values(activePositions).flat().length
RECURSIVE TotalPositions(_, _)
TotalPositions(keys, act) ==
    IF keys = <<>> THEN 0 ELSE Len(act[Head(keys)]) + TotalPositions(Tail(keys), act)

\* A handler that closes every open position before it exits.
ShutdownHandlerForceCloses(keys, act, h) ==
    [act |-> [s \in DOMAIN act |-> <<>>], heap |-> <<>>,
     logged |-> ShutdownLines(keys, act, h), closes |-> ShutdownLines(keys, act, h)]

\* Body of the SIGINT handler: it logs the open positions when there are any; it
\* calls neither closePosition nor any exchange method.
ShutdownHandler(keys, act, h) ==
    [act |-> act, heap |-> h,
     logged |-> IF TotalPositions(keys, act) > 0 THEN ShutdownLines(keys, act, h) ELSE <<>>,
     closes |-> <<>>]

\* process.on('SIGINT', ...): a macrotask.  After the report process.exit(0) ends
\* the process; the pending orders and the suspended monitors die with it.
Shutdown ==
    /\ Running
    /\ ~draining
    /\ \E r \in {ShutdownHandler(actKeys, activePositions, heap)} :
           /\ activePositions' = r.act
           /\ heap' = r.heap
           /\ logged' = r.logged
           /\ closes' = r.closes
    /\ evals' = <<>>
    /\ lastOp' = "shutdown"
    /\ UNCHANGED <<marketState, actKeys, lastSignals, lastOpened, pending,
                   monitors, draining, clock, rankVars, markets, config, emitted>>

Update == Running /\ Updates({MainSymbols[1]})

Settle == Running /\ \E i \in 1..MaxOrders, outcome \in Outcomes : OrderSettled(i, outcome)

Advance == Running /\ \E dt \in TimeSteps : Tick(dt)

Resume == Running /\ ResumeMonitor

Next == Update \/ Resume \/ Settle \/ Advance \/ Shutdown

Spec == Init /\ [][Next]_vars

\* Strategies of the engine that agree on a LONG at 100 and differ in the stop or
\* in the target: target 101 and stop 98, target 101 and stop 99.8, target 102 and
\* stop 98.
TightStopSignal ==
    [direction |-> "LONG", entryPrice |-> 1000000000, targetPrice |-> 1010000000,
     stopLoss |-> 998000000, leverage |-> 50]

WideStopSignal ==
    [direction |-> "LONG", entryPrice |-> 1000000000, targetPrice |-> 1010000000,
     stopLoss |-> 980000000, leverage |-> 50]

FarTargetSignal ==
    [direction |-> "LONG", entryPrice |-> 1000000000, targetPrice |-> 1020000000,
     stopLoss |-> 980000000, leverage |-> 50]

StopSignalLists == {<<>>, <<WideStopSignal>>, <<TightStopSignal>>, <<FarTargetSignal>>}

StopPrices == {998000000, 1000000000, 1010000000}

UpdateStops ==
    /\ Running
    /\ \E price \in StopPrices, sigs \in StopSignalLists :
           handleWebSocketUpdate("tickers", MainSymbols[1], price,
                                 [s \in Symbols |-> IF s = MainSymbols[1] THEN sigs ELSE <<>>])

\* Both main symbols report: tickers of either symbol, with a price (100, or 101
\* where a LONG takes its profit) or without one; the engine returns a LONG or
\* nothing for each symbol.
SymbolPrices == {Undef, 1000000000, 1010000000}

SymbolSignalLists == {<<>>, <<WideStopSignal>>}

UpdateSymbols ==
    /\ Running
    /\ \E symbol \in Symbols, price \in SymbolPrices, sigs \in [Symbols -> SymbolSignalLists] :
           handleWebSocketUpdate("tickers", symbol, price, sigs)

NextSymbols == UpdateSymbols \/ Resume \/ Settle

SpecSymbols == Init /\ [][NextSymbols]_vars

NextStops == UpdateStops \/ Resume \/ Settle

SpecStops == Init /\ [][NextStops]_vars

-----------------------------------------------------------------------------
(* Signal ranker (core/signal-ranker.ts).  Scores are kept times 100, strategy   *)
(* weights times 1000, percentages as integers.  A reason is modelled by the set *)
(* of table phrases its text contains.                                           *)

MaxCandidates == 3       \* length of the candidate list

StrategyNames == <<"News Momentum", "Orderbook Imbalance", "Volume Spike", "Whale Movement",
                   "CVD Divergence", "Liquidation Cascade", "Cross-Exchange Arbitrage">>

STRATEGY_WEIGHTS(name) ==
    CASE name = "News Momentum" -> 1000
      [] name = "Orderbook Imbalance" -> 900
      [] name = "Volume Spike" -> 850
      [] name = "Whale Movement" -> 700
      [] name = "CVD Divergence" -> 650
      [] name = "Liquidation Cascade" -> 600
      [] name = "Cross-Exchange Arbitrage" -> 500
      [] OTHER -> Undef

\* The phrase extractStrategyName looks for, for each table entry.
SearchPhrase(name) ==
    IF name = "Cross-Exchange Arbitrage" THEN "Cross-Exchange" ELSE name

extractStrategyName(reason) ==
    LET hits == {i \in 1..Len(StrategyNames) : SearchPhrase(StrategyNames[i]) \in reason}
    IN  IF hits = {} THEN "Unknown"
        ELSE StrategyNames[CHOOSE i \in hits : \A j \in hits : i <= j]

StrategyWeight(signal) ==
    LET w == STRATEGY_WEIGHTS(extractStrategyName(signal.reason))
    IN  IF w # Undef THEN w ELSE 300

calculateConfidence(signal) ==
    LET leverageBonus == IF signal.leverage >= 25 /\ signal.leverage <= 50 THEN 20
                         ELSE IF signal.leverage > 50 THEN 10 ELSE 0
        ratioBonus == IF signal.stopLossPercent > 0
                         /\ signal.takeProfitPercent >= 2 * signal.stopLossPercent
                      THEN 15 ELSE 0
        timeframeBonus == IF signal.timeframe \in {"1m", "30s"} THEN 10 ELSE 0
        orderBonus == IF signal.orderType = "Market" THEN 5 ELSE 0
    IN  Min(50 + leverageBonus + ratioBonus + timeframeBonus + orderBonus, 95)

\* tpPercent / slPercent as the fraction num / den, 0 when slPercent is 0;
\* signal.takeProfitPercent || 0 reads an absent percentage as 0.
calculateRiskRewardRatio(signal) ==
    LET tpPercent == IF signal.takeProfitPercent # Undef THEN signal.takeProfitPercent ELSE 0
        slPercent == IF signal.stopLossPercent # Undef THEN signal.stopLossPercent ELSE 0
    IN  IF slPercent = 0 THEN [num |-> 0, den |-> 1] ELSE [num |-> tpPercent, den |-> slPercent]

\* 100 * Math.round(score * 100) / 100, with score = confidence * 0.4
\* + (tp / sl) * 20 * 0.3 + weight * 100 * 0.3.
calculateSignalScore(signal) ==
    LET tp == signal.takeProfitPercent
        sl == signal.stopLossPercent
        riskReward600 == IF sl = 0 THEN 0 ELSE (1200 * tp + sl) \div (2 * sl)
    IN  40 * calculateConfidence(signal) + riskReward600 + 3 * StrategyWeight(signal)

\* allSignals.map(...): the signal with its score, and its place in the input.
Scored(allSignals) ==
    [i \in 1..Len(allSignals) |->
        [signal |-> allSignals[i], score |-> calculateSignalScore(allSignals[i]),
         confidence |-> calculateConfidence(allSignals[i]),
         riskRewardRatio |-> calculateRiskRewardRatio(allSignals[i]),
         strategyWeight |-> StrategyWeight(allSignals[i]), index |-> i]]

\* signal.validUntil && signal.validUntil > now
IsValidKeepingBoundary(r, now) == r.signal.validUntil # Undef /\ r.signal.validUntil >= now

IsValid(r, now) == r.signal.validUntil # Undef /\ r.signal.validUntil > now

RECURSIVE FilterValid(_, _)
FilterValid(rs, now) ==
    IF rs = <<>> THEN <<>>
    ELSE IF IsValid(Head(rs), now) THEN <<Head(rs)>> \o FilterValid(Tail(rs), now)
    ELSE FilterValid(Tail(rs), now)

MapSetKeepsFirst(map, r) ==
    LET at == {i \in 1..Len(map) : map[i].signal.symbol = r.signal.symbol}
    IN  IF at = {} THEN Append(map, r) ELSE map

\* The Map keeps a key where it was first inserted; set() on a present key
\* replaces the value in place.
MapSet(map, r) ==
    LET at == {i \in 1..Len(map) : map[i].signal.symbol = r.signal.symbol}
    IN  IF at = {} THEN Append(map, r)
        ELSE LET i == CHOOSE i \in at : TRUE
             IN  IF r.score > map[i].score THEN [map EXCEPT ![i] = r] ELSE map

RECURSIVE filterConflictingSignals(_, _)
filterConflictingSignals(map, rs) ==
    IF rs = <<>> THEN map
    ELSE filterConflictingSignals(MapSet(map, Head(rs)), Tail(rs))

InsertByScoreAscending(sorted, r) ==
    LET before == {i \in 1..Len(sorted) : sorted[i].score <= r.score}
        n == Cardinality(before)
    IN  SubSeq(sorted, 1, n) \o <<r>> \o SubSeq(sorted, n + 1, Len(sorted))

\* Array.prototype.sort with (a, b) => b.score - a.score: stable, descending.
InsertByScore(sorted, r) ==
    LET before == {i \in 1..Len(sorted) : sorted[i].score >= r.score}
        n == Cardinality(before)
    IN  SubSeq(sorted, 1, n) \o <<r>> \o SubSeq(sorted, n + 1, Len(sorted))

RECURSIVE SortByScore(_, _)
SortByScore(sorted, rs) ==
    IF rs = <<>> THEN sorted
    ELSE SortByScore(InsertByScore(sorted, Head(rs)), Tail(rs))

rankAndSelectBestSignals(allSignals, maxCount, now) ==
    LET validSignals == FilterValid(Scored(allSignals), now)
        nonConflictingSignals == filterConflictingSignals(<<>>, validSignals)
        sortedSignals == SortByScore(<<>>, nonConflictingSignals)
    IN  SubSeq(sortedSignals, 1, Min(maxCount, Len(sortedSignals)))

\* Candidate signals: a weak and a strong one per symbol, with expiries around now.
Candidate(symbol, direction, strong, validUntil) ==
    [symbol |-> symbol, direction |-> direction,
     entryPrice |-> 100, targetPrice |-> Undef, stopLoss |-> Undef,
     leverage |-> IF strong THEN 50 ELSE 10,
     takeProfitPercent |-> IF strong THEN 2 ELSE 1, stopLossPercent |-> 1,
     timeframe |-> IF strong THEN "1m" ELSE "15m",
     orderType |-> IF strong THEN "Market" ELSE "Limit",
     reason |-> IF strong THEN {"Volume Spike"} ELSE {},
     validUntil |-> validUntil]

\* A candidate as getActiveTradeSignals reads it from the trade_signals table: the
\* table has the columns targetPrice and stopLoss and no percentage column.
StoredCandidate(symbol, direction, targetPrice, stopLoss, validUntil) ==
    [symbol |-> symbol, direction |-> direction,
     entryPrice |-> 100, targetPrice |-> targetPrice, stopLoss |-> stopLoss,
     leverage |-> 10, takeProfitPercent |-> Undef, stopLossPercent |-> Undef,
     timeframe |-> "15m", orderType |-> "Limit", reason |-> {}, validUntil |-> validUntil]

CandidateSignals ==
    { StoredCandidate("ADAUSDT", "LONG", 103, 99, 300),
      StoredCandidate("XRPUSDT", "SHORT", 98, 100, 300),
      Candidate("BTCUSDT", "LONG", FALSE, 300),
      Candidate("BTCUSDT", "SHORT", TRUE, 300),
      Candidate("ETHUSDT", "LONG", TRUE, 300),
      Candidate("ETHUSDT", "SHORT", TRUE, 200),
      Candidate("SOLUSDT", "LONG", FALSE, 100),
      Candidate("SOLUSDT", "SHORT", FALSE, Undef) }

RankTimes == {100, 200}

Rank ==
    /\ lastOp = "init"
    /\ ranked' = rankAndSelectBestSignals(candidates, maxSignals, clock)
    /\ lastOp' = "rank"
    /\ UNCHANGED <<marketState, activePositions, actKeys, heap, lastSignals, lastOpened,
                   pending,
                   monitors, draining, clock, evals, closes, candidates, maxSignals,
                   scanVars>>

InitRank ==
    /\ marketState = [s \in Symbols |-> [price |-> Undef, change1m |-> Undef,
                                         liquidations24h |-> Undef]]
    /\ activePositions = [s \in Symbols |-> <<>>]
    /\ actKeys = <<>>
    /\ heap = <<>>
    /\ lastSignals = [s \in Symbols |-> "none"]
    /\ lastOpened = [s \in Symbols |-> "none"]
    /\ pending = <<>>
    /\ monitors = <<>>
    /\ draining = FALSE
    /\ clock \in RankTimes
    /\ lastOp = "init"
    /\ evals = <<>>
    /\ closes = <<>>
    /\ candidates \in UNION {[1..n -> CandidateSignals] : n \in 0..MaxCandidates}
    /\ maxSignals \in 0..MaxCandidates
    /\ ranked = <<>>
    /\ markets = <<>>
    /\ config = [maxLeverage |-> 100]
    /\ emitted = <<>>
    /\ logged = <<>>

NextRank == Rank

SpecRank == InitRank /\ [][NextRank]_vars

\* The reason a strategy writes on its signals, as the words, numbers (#) and
\* marks of the template of its source, in order.
ReasonText(strategy, direction) ==
    CASE strategy = "newsMomentumStrategy" ->
             <<"News", "Momentum", "#", "%", "|", "#", "|", "Velocity", ":", "#", "|",
               "TP", ":", "#", "%", "|", "SL", ":", "#", "%">>
      [] strategy = "orderbookImbalanceStrategy" ->
             <<"Orderbook", "Imbalance", "#", "%", "|", "Ratio", ":", "#", "|", "Spread", ":",
               "#", "bps", "|", "TP", ":", "#", "%", "|", "SL", ":", "#", "%">>
      [] strategy = "volumeSpikeStrategy" ->
             <<"Volume", "Spike", "#", "x", "|", "Price", "#", "%", "|",
               "TP", ":", "#", "%", "|", "SL", ":", "#", "%">>
      [] strategy = "whaleMovementStrategy" ->
             <<"Whale", "Movement", "#", "%", "|", "#", "|", "#", "Large", "TX", "|",
               "TP", ":", "#", "%", "|", "SL", ":", "#", "%">>
      [] strategy = "cvdDivergenceStrategy" ->
             <<"CVD", "Divergence", "#", "%", "|", "Futures", ":", "#", "|", "Spot", ":", "#",
               "|", "Conf", ":", "#", "%", "|", "TP", ":", "#", "%", "|", "SL", ":", "#", "%">>
      [] strategy = "liquidationCascadeStrategy" ->
             <<"Liquidation">>
             \o (IF direction = "LONG" THEN <<"Short", "Squeeze">> ELSE <<"Long", "Dump">>)
             \o <<"|", "Liq", ":", "#", "%", "|", "Imbalance", ":", "#", "%", "|",
                  "TP", ":", "#", "%", "|", "SL", ":", "#", "%">>
      [] strategy = "crossExchangeArbitrageStrategy" ->
             <<"Cross-Exchange", "Arbitrage", "#", "bps", "|", "Buy", ":", "#", "|",
               "Target", ":", "$", "#", "|", "TP", ":", "#", "%", "|", "SL", ":", "#", "%">>
      [] strategy = "fundingRateStrategy" ->
             <<"Funding", "rate", "#", "%", "-", "Strategia", "di", "arbitraggio">>
      [] OTHER ->
             <<"Momentum", direction, "-", "Variazione", "24h", ":", "#", "%">>

\* The words of a phrase, in order.
PhraseWords(phrase) ==
    CASE phrase = "News Momentum" -> <<"News", "Momentum">>
      [] phrase = "Orderbook Imbalance" -> <<"Orderbook", "Imbalance">>
      [] phrase = "Volume Spike" -> <<"Volume", "Spike">>
      [] phrase = "Whale Movement" -> <<"Whale", "Movement">>
      [] phrase = "CVD Divergence" -> <<"CVD", "Divergence">>
      [] phrase = "Liquidation Cascade" -> <<"Liquidation", "Cascade">>
      [] OTHER -> <<phrase>>

\* text.includes(phrase): the words of the phrase stand side by side in the text.
Includes(text, words) ==
    \E at \in 0..(Len(text) - Len(words)) : \A j \in 1..Len(words) : text[at + j] = words[j]

\* The table phrases a reason text contains: what extractStrategyName sees of it.
Phrases(text) ==
    {SearchPhrase(StrategyNames[i]) : i \in {j \in 1..Len(StrategyNames) :
                                          Includes(text, PhraseWords(SearchPhrase(StrategyNames[j])))}}

\* The strategies of the table, in the order of the table, and two that the table
\* does not list.
TableStrategies == <<"newsMomentumStrategy", "orderbookImbalanceStrategy", "volumeSpikeStrategy",
                     "whaleMovementStrategy", "cvdDivergenceStrategy",
                     "liquidationCascadeStrategy", "crossExchangeArbitrageStrategy">>

OtherStrategies == {"fundingRateStrategy", "momentumStrategy"}

Strategies == {TableStrategies[i] : i \in 1..Len(TableStrategies)} \cup OtherStrategies

\* The entry of STRATEGY_WEIGHTS that carries the name of the strategy, "none"
\* for a strategy the table does not list.
TableEntry(strategy) ==
    LET at == {i \in 1..Len(TableStrategies) : TableStrategies[i] = strategy}
    IN  IF at = {} THEN "none" ELSE StrategyNames[CHOOSE i \in at : TRUE]

MaxEmitted == 2          \* signals handed to the ranker at once

\* A signal as a strategy emits it; the ranker reads its reason only by the
\* phrases it contains.
EmittedSignal(strategy, direction, symbol) ==
    [symbol |-> symbol, direction |-> direction, strategy |-> strategy,
     entryPrice |-> 100, targetPrice |-> Undef, stopLoss |-> Undef,
     leverage |-> 10, takeProfitPercent |-> 2, stopLossPercent |-> 1,
     timeframe |-> "5m", orderType |-> "Limit",
     reason |-> Phrases(ReasonText(strategy, direction)), validUntil |-> 300]

WeightSymbols == <<"BTCUSDT", "ETHUSDT", "SOLUSDT", "ADAUSDT", "XRPUSDT">>

EmittedLists ==
    UNION {{[i \in 1..n |-> EmittedSignal(st[i], dir[i], WeightSymbols[i])] :
                st \in [1..n -> Strategies], dir \in [1..n -> {"LONG", "SHORT"}]} :
           n \in 1..Min(MaxEmitted, Len(WeightSymbols))}

InitWeights ==
    /\ marketState = [s \in Symbols |-> [price |-> Undef, change1m |-> Undef,
                                         liquidations24h |-> Undef]]
    /\ activePositions = [s \in Symbols |-> <<>>]
    /\ actKeys = <<>>
    /\ heap = <<>>
    /\ lastSignals = [s \in Symbols |-> "none"]
    /\ lastOpened = [s \in Symbols |-> "none"]
    /\ pending = <<>>
    /\ monitors = <<>>
    /\ draining = FALSE
    /\ clock \in RankTimes
    /\ lastOp = "init"
    /\ evals = <<>>
    /\ closes = <<>>
    /\ candidates \in EmittedLists
    /\ maxSignals \in 1..MaxEmitted
    /\ ranked = <<>>
    /\ markets = <<>>
    /\ config = [maxLeverage |-> 100]
    /\ emitted = <<>>
    /\ logged = <<>>

NextWeights == Rank

SpecWeights == InitWeights /\ [][NextWeights]_vars

-----------------------------------------------------------------------------
(* Strategies (packages/strategies) and the tick of the trading system that    *)
(* runs them (worker/trade.ts).  Scan prices are multiples of 3000000, so that *)
(* every liquidation level and every level of a signal is an exact integer.    *)
(* Fractions of a price are in parts per million; percentages (change1h,       *)
(* change24h, ...) are in tenths of a percent.                                 *)

MaxMarkets == 2          \* markets in one scan

\* Array.prototype.sort with a numeric comparator, which is stable: keyed is a
\* sequence of [key, value] and the result is in ascending order of key.
RECURSIVE InsertByKey(_, _)
InsertByKey(sorted, rest) ==
    IF rest = <<>> THEN sorted
    ELSE LET n == Cardinality({i \in 1..Len(sorted) : sorted[i].key <= Head(rest).key})
         IN  InsertByKey(SubSeq(sorted, 1, n) \o <<Head(rest)>>
                             \o SubSeq(sorted, n + 1, Len(sorted)), Tail(rest))

RECURSIVE ValuesOf(_)
ValuesOf(keyed) == IF keyed = <<>> THEN <<>> ELSE <<Head(keyed).value>> \o ValuesOf(Tail(keyed))

SortByKey(keyed) == ValuesOf(InsertByKey(<<>>, keyed))

\* LiquidationAnalyzer.calculateLiquidationLevel, maintenance margin in per mille.
calculateLiquidationLevel(entryPrice, leverage, direction, maintenanceMargin) ==
    IF direction = "LONG"
    THEN (entryPrice \div (1000 * leverage))
             * (1000 * leverage - 1000 + maintenanceMargin * leverage)
    ELSE (entryPrice \div (1000 * leverage))
             * (1000 * leverage + 1000 - maintenanceMargin * leverage)

\* Math.abs(level - ref) / ref <= tolerance, tolerance in per mille.  A level that
\* stands at exactly the tolerance is within it or not as the doubles round; the
\* market record says which (ties).
WithinTolerance(level, ref, tolerance, tieIn) ==
    \/ Abs(level - ref) * 1000 < tolerance * ref
    \/ Abs(level - ref) * 1000 = tolerance * ref /\ tieIn

CommonLeverages == <<10, 20, 25, 50, 75, 100, 125>>

RECURSIVE ProbableLevels(_, _)
ProbableLevels(market, i) ==
    IF i > Len(CommonLeverages) THEN <<>>
    ELSE LET long  == calculateLiquidationLevel(market.price, CommonLeverages[i], "LONG", 5)
             short == calculateLiquidationLevel(market.price, CommonLeverages[i], "SHORT", 5)
         IN  (IF WithinTolerance(long, market.price, 100, TRUE) THEN <<long>> ELSE <<>>)
             \o (IF WithinTolerance(short, market.price, 100, TRUE) THEN <<short>> ELSE <<>>)
             \o ProbableLevels(market, i + 1)

calculateProbableLiquidationLevels(market) == ProbableLevels(market, 1)

\* The loop of findLiquidationClusters over the sorted levels: st holds the
\* clusters saved so far, the cluster being built and its centre.
RECURSIVE ClusterLevels(_, _, _, _, _)
ClusterLevels(st, levels, currentPrice, tolerance, ties) ==
    IF levels = <<>> THEN st
    ELSE LET level == Head(levels)
             tieIn == IF level < currentPrice THEN "LONG" \in ties ELSE "SHORT" \in ties
             saved == IF Len(st.currentCluster) >= 2
                      THEN Append(st.clusters,
                                  [center |-> st.clusterCenter,
                                   strength |-> Len(st.currentCluster),
                                   distanceFromPrice |-> Abs(st.clusterCenter - currentPrice)])
                      ELSE st.clusters
             next == IF ~WithinTolerance(level, currentPrice, tolerance, tieIn) THEN st
                     ELSE IF st.currentCluster = <<>>
                     THEN [st EXCEPT !.clusterCenter = level, !.currentCluster = <<level>>]
                     ELSE IF WithinTolerance(level, st.clusterCenter, tolerance, TRUE)
                     THEN [st EXCEPT !.currentCluster = Append(@, level)]
                     ELSE [clusters |-> saved, clusterCenter |-> level,
                           currentCluster |-> <<level>>]
         IN  ClusterLevels(next, Tail(levels), currentPrice, tolerance, ties)

\* distanceFromPrice is kept as a price difference: every cluster of a call is
\* measured against the same price.
findLiquidationClusters(currentPrice, liquidationLevels, tolerance, ties) ==
    LET sortedLevels == SortByKey([i \in 1..Len(liquidationLevels) |->
                            [key |-> liquidationLevels[i], value |-> liquidationLevels[i]]])
        st == ClusterLevels([clusters |-> <<>>, clusterCenter |-> 0, currentCluster |-> <<>>],
                            sortedLevels, currentPrice, tolerance, ties)
        clusters == IF Len(st.currentCluster) >= 2
                    THEN Append(st.clusters,
                                [center |-> st.clusterCenter,
                                 strength |-> Len(st.currentCluster),
                                 distanceFromPrice |-> Abs(st.clusterCenter - currentPrice)])
                    ELSE st.clusters
    IN  SortByKey([i \in 1..Len(clusters) |->
                       [key |-> clusters[i].distanceFromPrice, value |-> clusters[i]]])

SIGNIFICANT_LIQUIDATION_THRESHOLD == 100000
MASSIVE_LIQUIDATION_THRESHOLD == 1000000

\* An optional record of a market summary is a sequence: <<>> when the field is
\* missing, <<r>> when it is there.
Absent == <<>>

\* LiquidationAnalyzer.analyzeLiquidations for one market; Absent when the market
\* has no liquidation data (no entry in the analysis map).
analyzeSingleMarket(market) ==
    IF market.liquidations24h = Absent THEN Absent
    ELSE LET liq == market.liquidations24h[1]
             netLiquidations == liq.sellQty - liq.buyQty
             oneSided == Abs(netLiquidations) * 10 > liq.total * 3
         IN  << [netLiquidations |-> netLiquidations,
                 isSignificant |-> liq.total > SIGNIFICANT_LIQUIDATION_THRESHOLD,
                 isMassive |-> liq.total > MASSIVE_LIQUIDATION_THRESHOLD,
                 dominantSide |-> IF ~oneSided THEN "NEUTRAL"
                                  ELSE IF netLiquidations > 0 THEN "SHORT" ELSE "LONG",
                 expectedDirection |-> IF ~oneSided THEN "NEUTRAL"
                                       ELSE IF netLiquidations > 0 THEN "BULLISH"
                                       ELSE "BEARISH"] >>

determineScalpingDirection(market, analysis, cluster) ==
    IF cluster.center > market.price /\ analysis.dominantSide = "SHORT" THEN "LONG"
    ELSE IF cluster.center < market.price /\ analysis.dominantSide = "LONG" THEN "SHORT"
    ELSE IF analysis.isMassive /\ analysis.expectedDirection = "BULLISH" THEN "LONG"
    ELSE IF analysis.isMassive /\ analysis.expectedDirection = "BEARISH" THEN "SHORT"
    ELSE "none"

calculateScalpingLevelsTowardCluster(market, direction, cluster, analysis) ==
    LET unit == market.price \div 1000000
        tpDistance == Min(((Abs(cluster.center - market.price) \div unit) * 8) \div 10, 4000)
    IN  [entryPrice |-> market.price,
         targetPrice |-> IF cluster.center > market.price
                         THEN market.price + unit * tpDistance
                         ELSE market.price - unit * tpDistance,
         stopLoss |-> IF cluster.center > market.price
                      THEN market.price - unit * 2000
                      ELSE market.price + unit * 2000,
         leverage |-> 75]

\* Distances in parts per million of the entry price.
calculateScalpingLevels(market, direction, cluster, analysis) ==
    LET entryPrice == market.price
        unit == entryPrice \div 1000000
        leverage == Min(75 + (IF cluster.strength >= 5 THEN 10 ELSE 0)
                           + (IF analysis.isMassive THEN 15 ELSE 0), 100)
        distanceToCluster == Abs(cluster.center - entryPrice) \div unit
        tpDistance == Min((distanceToCluster * 8) \div 10, 4000)
        change1h == IF market.change1h # Undef THEN market.change1h ELSE 5
        slDistance == Max(Abs(change1h) * 500, 2000)
    IN  [entryPrice |-> entryPrice,
         targetPrice |-> IF direction = "LONG" THEN entryPrice + unit * tpDistance
                         ELSE entryPrice - unit * tpDistance,
         stopLoss |-> IF direction = "LONG" THEN entryPrice - unit * slDistance
                      ELSE entryPrice + unit * slDistance,
         leverage |-> leverage]

StrongCluster(c) == c.strength >= 3

\* The body of the loop of liquidationScalpingStrategy for one market: the signal,
\* or no signal.
ScalpingSignals(market) ==
    LET found == analyzeSingleMarket(market)
        analysis == found[1]
    IN  IF found = Absent THEN <<>>
        ELSE IF ~analysis.isSignificant THEN <<>>
        ELSE
        LET clusters == findLiquidationClusters(market.price,
                            calculateProbableLiquidationLevels(market), 15, market.ties)
            kept == SelectSeq(clusters, StrongCluster)
            strong == SortByKey([i \in 1..Len(kept) |->
                                    [key |-> 0 - kept[i].strength, value |-> kept[i]]])
        IN  IF strong = <<>> THEN <<>>
            ELSE
            LET targetCluster == strong[1]
                direction == determineScalpingDirection(market, analysis, targetCluster)
                levels == calculateScalpingLevels(market, direction, targetCluster, analysis)
            IN  IF direction = "none" THEN <<>>
                ELSE << [symbol |-> market.symbol, direction |-> direction,
                         entryPrice |-> levels.entryPrice,
                         targetPrice |-> levels.targetPrice,
                         stopLoss |-> levels.stopLoss, leverage |-> levels.leverage,
                         strategy |-> "liquidationScalpingStrategy"] >>

RECURSIVE liquidationScalpingStrategy(_, _)
liquidationScalpingStrategy(ms, strategyConfig) ==
    IF ms = <<>> THEN <<>>
    ELSE ScalpingSignals(Head(ms)) \o liquidationScalpingStrategy(Tail(ms), strategyConfig)

(* ---- momentum.ts ---- *)

SignificantMove(m) == Abs(m.change24h) > 50 /\ m.volume24h > 5000000

\* Math.round(50 / |change24h| * 10) with change24h in tenths of a percent, capped
\* by config.maxLeverage and then raised to at least 25.
MomentumLeverage(market, strategyConfig) ==
    Max(25, Min((10000 + Abs(market.change24h)) \div (2 * Abs(market.change24h)),
                strategyConfig.maxLeverage))

\* Stop at 0.8 / leverage of the entry and target at three times that, each
\* rounded down to a whole part per million.
MomentumSignal(market, strategyConfig) ==
    LET direction == IF market.change24h > 0 THEN "LONG" ELSE "SHORT"
        leverage == MomentumLeverage(market, strategyConfig)
        unit == market.price \div 1000000
        stopLossPpm == 800000 \div leverage
        takeProfitPpm == 2400000 \div leverage
    IN  [symbol |-> market.symbol, direction |-> direction,
         entryPrice |-> market.price,
         targetPrice |-> IF direction = "LONG" THEN market.price + unit * takeProfitPpm
                         ELSE market.price - unit * takeProfitPpm,
         stopLoss |-> IF direction = "LONG" THEN market.price - unit * stopLossPpm
                      ELSE market.price + unit * stopLossPpm,
         leverage |-> leverage, strategy |-> "momentumStrategy"]

SignificantMoves(ms) ==
    LET kept == SelectSeq(ms, SignificantMove)
    IN  SortByKey([i \in 1..Len(kept) |->
                      [key |-> 0 - Abs(kept[i].change24h), value |-> kept[i]]])

\* market.change24h.toFixed(2) in the reason of a signal: a TypeError when the
\* change arrives as a numeric string, which passes the numeric filter.
MomentumThrows(ms) ==
    \E i \in 1..Min(3, Len(SignificantMoves(ms))) : SignificantMoves(ms)[i].change24hIsText

momentumStrategy(ms, strategyConfig) ==
    [i \in 1..Min(3, Len(SignificantMoves(ms))) |->
        MomentumSignal(SignificantMoves(ms)[i], strategyConfig)]

(* ---- funding.ts ---- *)
(* Funding rates are in millionths: -1700 is -0.0017, the threshold 0.001 is     *)
(* 1000.  Times are in minutes.                                                *)

MaxFundingMarkets == 4   \* markets in one evaluation of the funding strategy

\* leverageLimits of getRealisticLeverage in tenths, 20 for a symbol that is not
\* listed. The limit of RADUSDT is 12.5, the one entry that is not whole.
FundingLeverageLimitTenths(symbol) ==
    CASE symbol \in {"BTCUSDT", "ETHUSDT"} -> 1000
      [] symbol \in {"SOLUSDT", "ADAUSDT"} -> 500
      [] symbol \in {"AVAXUSDT", "LINKUSDT", "DOGEUSDT"} -> 250
      [] symbol = "RADUSDT" -> 125
      [] OTHER -> 200

\* The whole part of the limit: the limit itself for every symbol but RADUSDT.
FundingLeverageLimit(symbol) == FundingLeverageLimitTenths(symbol) \div 10

getRealisticLeverageUnclamped(symbol, fundingRate) == Max(5, Abs(fundingRate) \div 50)

\* Math.max(5, Math.min(Math.floor(|fundingRate| * 20000), maxLeverage)) in tenths.
\* The floor is a whole division of the millionths by 50, which is what the
\* doubles give for every rate of FundingCases and LeverageRates; the minimum
\* with a limit that is not whole is that limit, fraction included.
getRealisticLeverageTenths(symbol, fundingRate) == Max(50, Min(10 * (Abs(fundingRate) \div 50), FundingLeverageLimitTenths(symbol)))

\* The whole part of the leverage: the leverage itself whenever it is whole.
getRealisticLeverage(symbol, fundingRate) == getRealisticLeverageTenths(symbol, fundingRate) \div 10

ExtremeFunding(m) == Abs(m.fundingRate) > 1000 /\ m.volume24h > 1000000

\* Stop at 0.7 / leverage of the entry and target at four times that, each rounded
\* down to a whole part per million; valid for 8 hours. The signal carries its
\* leverage twice: leverage is the whole part, leverageTenths the exact value.
FundingSignal(market, now) ==
    LET direction == IF market.fundingRate > 0 THEN "SHORT" ELSE "LONG"
        leverage == getRealisticLeverage(market.symbol, market.fundingRate)
        leverageTenths == getRealisticLeverageTenths(market.symbol, market.fundingRate)
        unit == market.price \div 1000000
        stopLossPpm == 7000000 \div leverageTenths
        takeProfitPpm == 28000000 \div leverageTenths
    IN  [symbol |-> market.symbol, direction |-> direction,
         entryPrice |-> market.price,
         targetPrice |-> IF direction = "LONG" THEN market.price + unit * takeProfitPpm
                         ELSE market.price - unit * takeProfitPpm,
         stopLoss |-> IF direction = "LONG" THEN market.price - unit * stopLossPpm
                      ELSE market.price + unit * stopLossPpm,
         leverage |-> leverage, leverageTenths |-> leverageTenths,
         strategy |-> "fundingRateStrategy",
         timestamp |-> now, validUntil |-> now + 8 * 60]

fundingRateStrategy(ms, strategyConfig, now) ==
    LET kept == SelectSeq(ms, ExtremeFunding)
        extremeFunding == SortByKey([i \in 1..Len(kept) |->
                              [key |-> 0 - Abs(kept[i].fundingRate), value |-> kept[i]]])
    IN  [i \in 1..Min(3, Len(extremeFunding)) |-> FundingSignal(extremeFunding[i], now)]

(* ---- scalpingUltrarapidoStrategy (unnamed/part_008) ---- *)
(* change1m is in hundredths of a percent (25 is 0.25%); an optional number of  *)
(* a market summary is a sequence, Absent or <<n>>.                            *)

UltrarapidoAppliesMissingAsZero(market) ==
    LET Value(opt) == IF opt = Absent THEN 0 ELSE opt[1]
    IN  /\ Abs(Value(market.change1m)) > 25
        /\ Value(market.volume1m) > Value(market.avgVolume5m) * 2
        /\ Abs(market.fundingRate) < 1000

\* The two conditions of the loop: the three 1-minute fields are there, and they
\* show a spike with a low funding rate.
UltrarapidoApplies(market) ==
    /\ market.change1m # Absent /\ market.volume1m # Absent /\ market.avgVolume5m # Absent
    /\ Abs(market.change1m[1]) > 25
    /\ market.volume1m[1] > market.avgVolume5m[1] * 2
    /\ Abs(market.fundingRate) < 1000

\* Target at 0.15% + 0.5 * volatility and stop at 0.08% + 0.2 * volatility, in
\* parts per million of the entry.
UltrarapidoSignal(market, strategyConfig) ==
    LET change1m == IF market.change1m = Absent THEN 0 ELSE market.change1m[1]
        direction == IF change1m > 0 THEN "LONG" ELSE "SHORT"
        volatility == Abs(change1m)
        unit == market.price \div 1000000
        tpPpm == 1500 + 50 * volatility
        slPpm == 800 + 20 * volatility
    IN  [symbol |-> market.symbol, direction |-> direction,
         entryPrice |-> market.price,
         targetPrice |-> IF direction = "LONG" THEN market.price + unit * tpPpm
                         ELSE market.price - unit * tpPpm,
         stopLoss |-> IF direction = "LONG" THEN market.price - unit * slPpm
                      ELSE market.price + unit * slPpm,
         leverage |-> Min(75 + volatility \div 10, strategyConfig.maxLeverage),
         strategy |-> "scalpingUltrarapidoStrategy"]

RECURSIVE scalpingUltrarapidoStrategy(_, _)
scalpingUltrarapidoStrategy(ms, strategyConfig) ==
    IF ms = <<>> THEN <<>>
    ELSE (IF UltrarapidoApplies(Head(ms))
          THEN <<UltrarapidoSignal(Head(ms), strategyConfig)>> ELSE <<>>)
         \o scalpingUltrarapidoStrategy(Tail(ms), strategyConfig)

(* ---- core/telegram-notifier.ts: the table of leverage ceilings ---- *)

\* BYBIT_LEVERAGE_LIMITS for the symbols of the scan.
getMaxLeverage(symbol) ==
    CASE symbol = "BTCUSDT" -> 100
      [] symbol = "ETHUSDT" -> 100
      [] symbol = "SOLUSDT" -> 50
      [] symbol = "ADAUSDT" -> 50
      [] symbol = "XRPUSDT" -> 25

(* ---- One scan of the trading system (worker/trade.ts, runTradingSystem) ---- *)

Liquidations(buyQty, sellQty) == << [buyQty |-> buyQty, sellQty |-> sellQty, total |-> buyQty + sellQty] >>

\* A market summary with no optional field and nothing that triggers a strategy.
QuietMarket == [symbol |-> "BTCUSDT", price |-> 3000000, change1h |-> Undef, change24h |-> 10, change24hIsText |-> FALSE, volume24h |-> 1000000, fundingRate |-> 100, change1m |-> Absent, volume1m |-> Absent, avgVolume5m |-> Absent, liquidations24h |-> Absent, ties |-> {}]

\* Markets for the liquidation scalping strategy: liquidation totals below the
\* significant threshold, above it and above the massive one, dominated by either
\* side or balanced.
ScalpingMarkets ==
    {[QuietMarket EXCEPT !.price = p, !.change1h = c, !.liquidations24h = l, !.ties = t] :
        p \in {3000000, 6000000}, c \in {Undef, -2, 12},
        l \in {Absent, Liquidations(10000, 50000), Liquidations(100000, 500000),
               Liquidations(500000, 100000), Liquidations(300000, 300000),
               Liquidations(400000, 1600000), Liquidations(1600000, 400000)},
        t \in SUBSET {"LONG", "SHORT"}}
        \cup {[QuietMarket EXCEPT !.symbol = "SOLUSDT", !.liquidations24h = l, !.ties = t] :
                 l \in {Liquidations(100000, 500000), Liquidations(1600000, 400000)},
                 t \in SUBSET {"LONG", "SHORT"}}

\* Markets for the momentum strategy: a 24h change at the 5% threshold and above
\* it, either way, with a volume at the 5M threshold and above it.
MomentumMarkets ==
    {[QuietMarket EXCEPT !.symbol = s, !.change24h = c, !.volume24h = v] :
        s \in {"BTCUSDT", "SOLUSDT"}, c \in {50, 60, -80, 250}, v \in {5000000, 6000000}}
        \cup {[QuietMarket EXCEPT !.change24h = 60, !.change24hIsText = t,
                                  !.volume24h = 6000000, !.fundingRate = f] :
                 f \in {100, -1700, 3000}, t \in BOOLEAN}

\* Markets for the funding strategy within a scan.
FundingMarkets ==
    {[QuietMarket EXCEPT !.symbol = s, !.fundingRate = f, !.volume24h = 2000000] :
        s \in {"BTCUSDT", "SOLUSDT"}, f \in {-1700, 3000}}

\* Markets for the ultra-fast scalping strategy: each of the three 1-minute
\* fields there or missing, a 1-minute change below and above 0.25%, a volume
\* below and above twice the average.
UltrarapidoMarkets ==
    {[QuietMarket EXCEPT !.change1m = c, !.volume1m = v, !.avgVolume5m = a, !.fundingRate = f] :
        c \in {Absent, <<20>>, <<30>>, <<-40>>}, v \in {Absent, <<100>>},
        a \in {Absent, <<40>>, <<60>>}, f \in {100, 3000}}

ScanMarkets == ScalpingMarkets \cup MomentumMarkets \cup FundingMarkets \cup UltrarapidoMarkets

\* The markets that follow the first one in a scan: other symbols, each with an
\* extreme funding rate or with a significant 24h move.
ExtraSymbols == <<"ETHUSDT", "ADAUSDT", "XRPUSDT">>

ExtraMarkets(i) ==
    {[QuietMarket EXCEPT !.symbol = ExtraSymbols[i], !.fundingRate = 3000, !.volume24h = 2000000],
     [QuietMarket EXCEPT !.symbol = ExtraSymbols[i], !.change24h = -80, !.volume24h = 6000000]}

\* Scans of distinct symbols: any market of ScanMarkets, then extra markets.
ScanMarketLists ==
    UNION {{[i \in 1..n |-> IF i = 1 THEN m ELSE rest[i - 1]] :
                m \in ScanMarkets,
                rest \in {r \in [1..(n - 1) -> UNION {ExtraMarkets(k) : k \in 1..Len(ExtraSymbols)}] :
                             \A k \in 1..(n - 1) : r[k] \in ExtraMarkets(k)}} :
           n \in 1..Min(MaxMarkets, Len(ExtraSymbols) + 1)}

\* MAX_LEVERAGE of the environment: its default, and a lower setting.
ScanConfigs == {[maxLeverage |-> 100], [maxLeverage |-> 20]}

\* One strategy inside the try/catch of the loop: its signals, or none when it
\* throws.
TryStrategy(throws, signals) == IF throws THEN <<>> ELSE signals

LogStrategy(throws, name) == IF throws THEN <<name>> ELSE <<>>

\* The loop over the strategies of the scan, those translated here, in the order
\* they are run.
RunStrategies(ms, strategyConfig, now) ==
    TryStrategy(FALSE, fundingRateStrategy(ms, strategyConfig, now))
        \o TryStrategy(FALSE, liquidationScalpingStrategy(ms, strategyConfig))
        \o TryStrategy(MomentumThrows(ms), momentumStrategy(ms, strategyConfig))
        \o TryStrategy(FALSE, scalpingUltrarapidoStrategy(ms, strategyConfig))

StrategyErrors(ms) == LogStrategy(MomentumThrows(ms), "momentumStrategy")

\* What the request of the notifier does: the message is sent, the service
\* answers with an error, or formatting or sending raises an exception.
NotifierOutcomes == {"sent", "error response", "exception"}

sendTradingSignalRethrows(outcome) ==
    IF outcome = "sent" THEN "true" ELSE IF outcome = "exception" THEN "throw" ELSE "false"

\* TelegramNotifier.sendTradingSignal: its whole body is inside try/catch, so it
\* answers true or false and never throws.
sendTradingSignal(outcome) == IF outcome = "sent" THEN "true" ELSE "false"

\* What the database answers to the insert of a signal.
SaveOutcomes == {"saved", "db error"}

\* saveTradeSignal: the catch around the insert logs the error and throws it again.
saveTradeSignal(outcome) == IF outcome = "saved" THEN "ok" ELSE "throw"

\* The loop of runTradingSystem over the signals: each is saved, then notified
\* when a notifier is configured.  The loop has no try/catch of its own: an
\* exception inside it leaves it for the catch of the function, which logs it.
RECURSIVE SaveAndNotify(_, _, _, _, _)
SaveAndNotify(st, signals, telegramNotifier, outcomes, saves) ==
    IF signals = <<>> THEN st
    ELSE IF saveTradeSignal(Head(saves)) = "throw"
    THEN [saved |-> st.saved, logged |-> st.logged \o <<"saveTradeSignal", "trading system">>]
    ELSE LET saved == Append(st.saved, Head(signals))
             sent == IF telegramNotifier THEN sendTradingSignal(Head(outcomes)) ELSE "true"
         IN  IF sent = "throw"
             THEN [saved |-> saved, logged |-> Append(st.logged, "trading system")]
             ELSE SaveAndNotify([saved |-> saved,
                                 logged |-> IF sent = "false" THEN Append(st.logged, "notifier")
                                            ELSE st.logged],
                                Tail(signals), telegramNotifier, Tail(outcomes), Tail(saves))

\* A specification feeds the tick from the answers it lets the database give.
TradingSystemTick(saveOutcomes) ==
    /\ lastOp = "init"
    /\ \E signals \in {RunStrategies(markets, config, clock)} :
       \E telegramNotifier \in BOOLEAN :
       \E outcomes \in [1..Len(signals) -> IF telegramNotifier THEN NotifierOutcomes ELSE {"sent"}] :
       \E saves \in [1..Len(signals) -> saveOutcomes] :
       \E done \in {SaveAndNotify([saved |-> <<>>, logged |-> StrategyErrors(markets)],
                                  signals, telegramNotifier, outcomes, saves)} :
           /\ emitted' = done.saved
           /\ logged' = done.logged
    /\ lastOp' = "scan"
    /\ UNCHANGED <<marketState, activePositions, actKeys, heap, lastSignals, lastOpened,
                   pending,
                   monitors, draining, clock, evals, closes, rankVars, markets, config>>

\* The tick with a database that takes every insert.
runTradingSystem == TradingSystemTick({"saved"})

\* The tick with a database that may refuse an insert.
runTradingSystemDb == TradingSystemTick(SaveOutcomes)

\* The reduce of generateTradeSignals: one signal per symbol and direction, the
\* first one unless a later one has a higher leverage.
RECURSIVE UniqueSignals(_, _)
UniqueSignals(acc, signals) ==
    IF signals = <<>> THEN acc
    ELSE LET signal == Head(signals)
             same == {i \in 1..Len(acc) : acc[i].symbol = signal.symbol
                                          /\ acc[i].direction = signal.direction}
             index == CHOOSE i \in same : \A j \in same : i <= j
         IN  UniqueSignals(IF same = {} THEN Append(acc, signal)
                           ELSE IF acc[index].leverage < signal.leverage
                           THEN [acc EXCEPT ![index] = signal]
                           ELSE acc,
                           Tail(signals))

MaxConcurrentPositions == 5

\* generateTradeSignals (strategies/index.ts): the strategies are called one after
\* the other in an array literal, with no try/catch, so an exception of one leaves
\* the function and nothing is returned.  For the markets of the model
\* liquidationHuntingStrategy (volume above 20M) and volumeAnomalyStrategy (more
\* than five markets) return nothing; ultraAggressiveStrategy is not translated.
generateTradeSignals ==
    /\ lastOp = "init"
    /\ emitted' = IF MomentumThrows(markets) THEN <<>>
                  ELSE LET unique == UniqueSignals(<<>>, momentumStrategy(markets, config)
                                         \o fundingRateStrategy(markets, config, clock))
                       IN  SubSeq(unique, 1, Min(MaxConcurrentPositions, Len(unique)))
    /\ logged' = <<>>
    /\ lastOp' = IF MomentumThrows(markets) THEN "generate threw" ELSE "generate"
    /\ UNCHANGED <<marketState, activePositions, actKeys, heap, lastSignals, lastOpened,
                   pending,
                   monitors, draining, clock, evals, closes, rankVars, markets, config>>

InitScan ==
    /\ marketState = [s \in Symbols |-> [price |-> Undef, change1m |-> Undef,
                                         liquidations24h |-> Undef]]
    /\ activePositions = [s \in Symbols |-> <<>>]
    /\ actKeys = <<>>
    /\ heap = <<>>
    /\ lastSignals = [s \in Symbols |-> "none"]
    /\ lastOpened = [s \in Symbols |-> "none"]
    /\ pending = <<>>
    /\ monitors = <<>>
    /\ draining = FALSE
    /\ clock = 1
    /\ lastOp = "init"
    /\ evals = <<>>
    /\ closes = <<>>
    /\ candidates = <<>>
    /\ maxSignals = 0
    /\ ranked = <<>>
    /\ markets \in ScanMarketLists
    /\ config \in ScanConfigs
    /\ emitted = <<>>
    /\ logged = <<>>

NextScan == runTradingSystem \/ generateTradeSignals

SpecScan == InitScan /\ [][NextScan]_vars

NextPersist == runTradingSystemDb

SpecPersist == InitScan /\ [][NextPersist]_vars

(* ---- The funding strategy on its own (test-funding-strategy.ts) ---- *)

FundingSymbols == <<"BTCUSDT", "SOLUSDT", "AVAXUSDT", "XRPUSDT", "ETHUSDT">>

\* A funding rate and a 24h volume: the example, the example with the volume at
\* the minimum, a rate below the threshold, the threshold, a rate above the example.
FundingCases ==
    {[fundingRate |-> -1700, volume24h |-> 2000000], [fundingRate |-> -1700, volume24h |-> 1000000],
     [fundingRate |-> 500, volume24h |-> 2000000], [fundingRate |-> 1000, volume24h |-> 2000000],
     [fundingRate |-> 3000, volume24h |-> 2000000]}

\* Lists of markets with distinct symbols.
FundingMarketLists ==
    UNION {{[i \in 1..n |-> [QuietMarket EXCEPT !.symbol = FundingSymbols[i],
                                                !.fundingRate = c[i].fundingRate,
                                                !.volume24h = c[i].volume24h]] :
                c \in [1..n -> FundingCases]} :
           n \in 1..Min(MaxFundingMarkets, Len(FundingSymbols))}

RunFunding ==
    /\ lastOp = "init"
    /\ emitted' = fundingRateStrategy(markets, config, clock)
    /\ lastOp' = "funding"
    /\ UNCHANGED <<marketState, activePositions, actKeys, heap, lastSignals, lastOpened,
                   pending,
                   monitors, draining, clock, evals, closes, rankVars, markets, config,
                   logged>>

InitFunding ==
    /\ marketState = [s \in Symbols |-> [price |-> Undef, change1m |-> Undef,
                                         liquidations24h |-> Undef]]
    /\ activePositions = [s \in Symbols |-> <<>>]
    /\ actKeys = <<>>
    /\ heap = <<>>
    /\ lastSignals = [s \in Symbols |-> "none"]
    /\ lastOpened = [s \in Symbols |-> "none"]
    /\ pending = <<>>
    /\ monitors = <<>>
    /\ draining = FALSE
    /\ clock \in {1, 7}
    /\ lastOp = "init"
    /\ evals = <<>>
    /\ closes = <<>>
    /\ candidates = <<>>
    /\ maxSignals = 0
    /\ ranked = <<>>
    /\ markets \in FundingMarketLists
    /\ config = [maxLeverage |-> 100]
    /\ emitted = <<>>
    /\ logged = <<>>

NextFunding == RunFunding

SpecFunding == InitFunding /\ [][NextFunding]_vars

\* One market per scan, over every symbol of leverageLimits' classes and a symbol
\* that is not listed, at rates below, at and above the threshold of the strategy.
LeverageSymbols == {"BTCUSDT", "ETHUSDT", "SOLUSDT", "AVAXUSDT", "DOGEUSDT", "RADUSDT", "XRPUSDT"}

LeverageRates == {-3000, -1700, 500, 1000, 1250, 1700, 2500, 3000, 6000}

LeverageMarketLists ==
    {<<[QuietMarket EXCEPT !.symbol = symbol, !.fundingRate = rate, !.volume24h = 2000000]>> :
        symbol \in LeverageSymbols, rate \in LeverageRates}

InitLeverage ==
    /\ marketState = [s \in Symbols |-> [price |-> Undef, change1m |-> Undef,
                                         liquidations24h |-> Undef]]
    /\ activePositions = [s \in Symbols |-> <<>>]
    /\ actKeys = <<>>
    /\ heap = <<>>
    /\ lastSignals = [s \in Symbols |-> "none"]
    /\ lastOpened = [s \in Symbols |-> "none"]
    /\ pending = <<>>
    /\ monitors = <<>>
    /\ draining = FALSE
    /\ clock \in {1, 7}
    /\ lastOp = "init"
    /\ evals = <<>>
    /\ closes = <<>>
    /\ candidates = <<>>
    /\ maxSignals = 0
    /\ ranked = <<>>
    /\ markets \in LeverageMarketLists
    /\ config = [maxLeverage |-> 100]
    /\ emitted = <<>>
    /\ logged = <<>>

NextLeverage == RunFunding

SpecLeverage == InitLeverage /\ [][NextLeverage]_vars

-----------------------------------------------------------------------------
(* Position lifecycle: properties *)

OpenIds(s) == {activePositions[s][i] : i \in 1..Len(activePositions[s])}

\* C1: at most one open position per (symbol, direction), in every reachable state.
C1_OnePositionPerSymbolDirection ==
    \A s \in Symbols : \A i, j \in 1..Len(activePositions[s]) :
        i # j => heap[activePositions[s][i]].direction # heap[activePositions[s][j]].direction

\* C2: an evaluation pass begins only when every earlier pass has completed: no
\* monitor of an earlier pass is suspended and no order placement of an earlier
\* pass has yet to write its position.
C2_PassesDoNotOverlap ==
    [][lastOp' = "update" => (monitors = <<>> /\ pending = <<>>)]_vars

\* C3: a failed order placement opens no position and places no further order:
\* the step that settles it leaves the open set as it was and only drops that
\* placement from those in flight.
C3_FailedOrderOpensNothing ==
    [][lastOp' = "order_failed" =>
          /\ activePositions' = activePositions
          /\ heap' = heap
          /\ \E i \in 1..Len(pending) : pending' = RemoveAt(pending, i)]_vars

C3_Witness ==
    /\ lastOp = "order_failed"
    /\ pending = <<>>
    /\ \E s \in Symbols : lastSignals[s] # "none" /\ activePositions[s] = <<>>

\* C4: from one step to the next the trailing stop and the stop loss of a position
\* never worsen (LONG: never decrease, SHORT: never increase); the same holds of
\* the stop SignalExecutor.updateTrailingStop returns at the price of the step.
C4_StopNeverWorsens ==
    [][/\ \A id \in (DOMAIN heap) \cap (DOMAIN heap') :
             /\ heap[id].direction = "LONG" =>
                    /\ heap'[id].stopLoss >= heap[id].stopLoss
                    /\ heap'[id].trailingStop >= heap[id].trailingStop
             /\ heap[id].direction = "SHORT" =>
                    /\ heap'[id].stopLoss <= heap[id].stopLoss
                    /\ heap[id].trailingStop # Undef =>
                           /\ heap'[id].trailingStop # Undef
                           /\ heap'[id].trailingStop <= heap[id].trailingStop
       /\ \A s \in Symbols, stop \in {980000000, 1010000000}, trail \in {8, 12} :
             LET cur == marketState'[s].price
             IN  cur # Undef =>
                 /\ SignalExecutorUpdateTrailingStop(cur, 1000000000, "LONG", stop, 10, trail)
                        >= stop
                 /\ SignalExecutorUpdateTrailingStop(cur, 1000000000, "SHORT", stop, 10, trail)
                        <= stop]_vars

\* A LONG whose trailing stop was set at a higher price than the present one.
C4_Witness ==
    \E s \in Symbols : \E id \in OpenIds(s) :
        /\ heap[id].direction = "LONG"
        /\ marketState[s].price # Undef
        /\ heap[id].trailingStop > (marketState[s].price \div 1000) * (1000 - TrailingPerMille)

FirstHolding(conds) ==
    LET hits == {i \in 1..Len(ExitOrder) : ExitOrder[i] \in conds}
    IN  IF hits = {} THEN "none"
        ELSE ExitOrder[CHOOSE i \in hits : \A j \in hits : i <= j]

\* C5: every exit evaluation reports the first condition, in the order take_profit,
\* stop_loss, opposite_signal, pre_liquidation, volatility_spike,
\* liquidation_cluster, timeout, that holds for the position, issues one close with
\* that reason, and nothing else for that position in the step.
C5_FirstMatchWins ==
    /\ \A k \in 1..Len(evals) :
           /\ evals[k].reason = FirstHolding(evals[k].conds)
           /\ evals[k].reason # "none" =>
                  /\ Len(closes) = 1
                  /\ closes[1].evaluated = evals[k].id
                  /\ closes[1].reason = evals[k].reason
                  /\ closes[1].symbol = evals[k].symbol
                  /\ closes[1].direction = evals[k].direction
           /\ \A l \in 1..Len(evals) : evals[l].id = evals[k].id => l = k
    /\ Len(closes) <= 1

\* Two conditions hold at once and the earlier one is reported.
C5_Witness ==
    \E k \in 1..Len(evals) :
        /\ {"stop_loss", "pre_liquidation"} \subseteq evals[k].conds
        /\ evals[k].reason = "stop_loss"

IsC6Case(e) ==
    /\ e.direction = "LONG"
    /\ e.entryPrice = 1000000000
    /\ e.leverage = 50
    /\ e.price = 987955000

\* C6: a LONG at 100 with leverage 50 has liquidation price 98.5 and, evaluated at
\* price 98.5 * 1.003 = 98.7955 while none of take_profit, stop_loss and
\* opposite_signal holds, closes with reason pre_liquidation.
C6_ClosesAsPreLiquidation ==
    /\ calcLiquidationPrice(1000000000, 50, "LONG") = 985000000
    /\ \A k \in 1..Len(evals) :
           (/\ IsC6Case(evals[k])
            /\ evals[k].conds \cap {"take_profit", "stop_loss", "opposite_signal"} = {})
           => evals[k].reason = "pre_liquidation"

\* C7 as stated: once a tick has been processed, no open position has been open
\* for longer than its inactivity timeout.
C7_NoneOpenPastTimeout ==
    (lastOp \in {"update", "resume"} /\ monitors = <<>>) =>
        \A s \in Symbols : \A id \in OpenIds(s) : clock - heap[id].openTime <= DefaultTimeout

\* C7 amended: once a tick has been processed, no position of a symbol whose
\* snapshot carries a price has been open for longer than its inactivity timeout;
\* every position evaluated after more than its timeout has a close of its symbol
\* and direction issued in that evaluation, with reason timeout exactly when no
\* earlier condition holds.
C7_PricedNoneOpenPastTimeout ==
    /\ (lastOp \in {"update", "resume"} /\ monitors = <<>>) =>
           \A s \in Symbols : marketState[s].price # Undef =>
               \A id \in OpenIds(s) : clock - heap[id].openTime <= DefaultTimeout
    /\ \A k \in 1..Len(evals) : evals[k].elapsed > DefaultTimeout =>
           /\ evals[k].reason # "none"
           /\ evals[k].reason = "timeout" <=> evals[k].conds = {"timeout"}
           /\ \E c \in 1..Len(closes) :
                  /\ closes[c].symbol = evals[k].symbol
                  /\ closes[c].direction = evals[k].direction
                  /\ closes[c].reason = evals[k].reason

\* A position past its timeout is evaluated and closed for that reason.
C7_Witness ==
    \E k \in 1..Len(evals) : evals[k].reason = "timeout" /\ evals[k].elapsed > DefaultTimeout

-----------------------------------------------------------------------------
(* Ranker: properties *)

\* The candidates that have not expired at the time of ranking, by place in the input.
Unexpired == {k \in 1..Len(candidates) :
                 candidates[k].validUntil # Undef /\ candidates[k].validUntil > clock}

\* The symbols that have an unexpired candidate, and the best score of each.
LiveSymbols == {candidates[k].symbol : k \in Unexpired}

BestScore(symbol) ==
    LET scores == {calculateSignalScore(candidates[k]) :
                      k \in {u \in Unexpired : candidates[u].symbol = symbol}}
    IN  CHOOSE x \in scores : \A y \in scores : y <= x

RankedSymbols == {ranked[i].signal.symbol : i \in 1..Len(ranked)}

\* C9: two ranked signals with equal score stand in the output in the order in
\* which those two candidates stand in the input list.
C9_TiesKeepInputOrder ==
    \A i, j \in 1..Len(ranked) :
        (i < j /\ ranked[i].score = ranked[j].score) => ranked[i].index < ranked[j].index

\* C10: after ranking, no ranked signal has an expiry at or before now (an
\* undefined expiry counts as expired).
C10_NoExpiredRanked ==
    lastOp = "rank" =>
        \A i \in 1..Len(ranked) :
            /\ ranked[i].signal.validUntil # Undef
            /\ ~(ranked[i].signal.validUntil <= clock)

\* A list holding a candidate that expires exactly now, ranked to a non-empty output.
C10_Witness ==
    /\ lastOp = "rank"
    /\ ranked # <<>>
    /\ \E i \in 1..Len(candidates) : candidates[i].validUntil = clock

\* C11: the ranked output holds at most one signal per symbol, and each signal it
\* holds is an unexpired candidate whose score is the highest among the unexpired
\* candidates of its symbol.
C11_OnePerSymbolHighestScore ==
    lastOp = "rank" =>
        /\ \A i, j \in 1..Len(ranked) :
               i # j => ranked[i].signal.symbol # ranked[j].signal.symbol
        /\ \A i \in 1..Len(ranked) :
               /\ ranked[i].index \in Unexpired
               /\ ranked[i].signal = candidates[ranked[i].index]
               /\ ranked[i].score = calculateSignalScore(ranked[i].signal)
               /\ ranked[i].score = BestScore(ranked[i].signal.symbol)

\* A LONG and a higher-scoring SHORT of one symbol, both unexpired, the LONG first
\* in the input: the SHORT is ranked.
C11_Witness ==
    /\ lastOp = "rank"
    /\ \E j, k \in Unexpired :
           /\ j < k
           /\ candidates[j].symbol = candidates[k].symbol
           /\ candidates[j].direction = "LONG" /\ candidates[k].direction = "SHORT"
           /\ calculateSignalScore(candidates[j]) < calculateSignalScore(candidates[k])
           /\ \E i \in 1..Len(ranked) : ranked[i].index = k

\* C12: the ranked output is in order of non-increasing score, has at most
\* maxSignals entries, and holds the maxSignals best of the per-symbol winners
\* (all of them when they are fewer): every winner left out scores no more than
\* every signal ranked.
C12_SortedTopN ==
    lastOp = "rank" =>
        /\ \A i, j \in 1..Len(ranked) : i < j => ranked[i].score >= ranked[j].score
        /\ Len(ranked) <= maxSignals
        /\ Len(ranked) = Min(maxSignals, Cardinality(LiveSymbols))
        /\ RankedSymbols \subseteq LiveSymbols
        /\ \A i \in 1..Len(ranked) :
               ranked[i].score = BestScore(ranked[i].signal.symbol)
        /\ \A s \in LiveSymbols \ RankedSymbols :
               \A i \in 1..Len(ranked) : BestScore(s) <= ranked[i].score

\* The cut drops a winner that scores less than the one ranked, though it stands
\* earlier in the input.
C12_Witness ==
    /\ lastOp = "rank"
    /\ maxSignals >= 1
    /\ Len(ranked) = maxSignals
    /\ \E s \in LiveSymbols \ RankedSymbols :
           /\ BestScore(s) < ranked[Len(ranked)].score
           /\ \E k \in Unexpired :
                  candidates[k].symbol = s /\ k < ranked[Len(ranked)].index

-----------------------------------------------------------------------------
(* Strategies: properties *)

C14_LeverageWithinCeiling ==
    lastOp = "scan" =>
        \A i \in 1..Len(emitted) :
            /\ emitted[i].leverage >= 1
            /\ emitted[i].leverage <= Max(config.maxLeverage, getMaxLeverage(emitted[i].symbol))

\* Markets the funding strategy keeps that stand before market i in its order:
\* a larger magnitude of the rate, or the same magnitude earlier in the list.
FundingAhead(i) ==
    {j \in 1..Len(markets) :
        /\ ExtremeFunding(markets[j])
        /\ \/ Abs(markets[j].fundingRate) > Abs(markets[i].fundingRate)
           \/ Abs(markets[j].fundingRate) = Abs(markets[i].fundingRate) /\ j < i}

\* The signal of the example: LONG, leverage within the symbol's ceiling, target
\* above the entry, stop below it, expiry 8 hours after creation.
IsFundingExampleSignal(sig, market) ==
    /\ sig.symbol = market.symbol
    /\ sig.direction = "LONG"
    /\ sig.leverage >= 1
    /\ sig.leverage <= FundingLeverageLimit(market.symbol)
    /\ sig.entryPrice = market.price
    /\ sig.targetPrice > sig.entryPrice
    /\ sig.stopLoss < sig.entryPrice
    /\ sig.timestamp = clock
    /\ sig.validUntil = sig.timestamp + 480

FundingExample(i) == markets[i].fundingRate = -1700 /\ markets[i].volume24h > 1000000

NoSignalBelowThreshold ==
    \A i \in 1..Len(markets) :
        Abs(markets[i].fundingRate) < 1000 =>
            \A k \in 1..Len(emitted) : emitted[k].symbol # markets[i].symbol

\* C15 as stated: a market with funding rate -0.0017 and a volume above the
\* minimum gets the signal of the example, and a market whose rate is below the
\* threshold gets no signal.
C15_FundingExampleEmits ==
    lastOp = "funding" =>
        /\ \A i \in 1..Len(markets) :
               FundingExample(i) =>
                   \E k \in 1..Len(emitted) : IsFundingExampleSignal(emitted[k], markets[i])
        /\ NoSignalBelowThreshold

\* C15 amended: the market of the example gets its signal when fewer than three
\* kept markets stand before it (the strategy signals its top three only); a
\* market whose rate is below the threshold gets no signal.
C15_FundingExampleEmitsInTopThree ==
    lastOp = "funding" =>
        /\ \A i \in 1..Len(markets) :
               FundingExample(i) /\ Cardinality(FundingAhead(i)) < 3 =>
                   \E k \in 1..Len(emitted) : IsFundingExampleSignal(emitted[k], markets[i])
        /\ \A i \in 1..Len(markets) :
               FundingExample(i) /\ Cardinality(FundingAhead(i)) >= 3 =>
                   \A k \in 1..Len(emitted) : emitted[k].symbol # markets[i].symbol
        /\ NoSignalBelowThreshold

\* The example on a symbol whose ceiling (20) is below the computed leverage (34),
\* next to a market below the threshold.
C15_Witness ==
    /\ lastOp = "funding"
    /\ \E i, j \in 1..Len(markets) :
           /\ FundingExample(i)
           /\ FundingLeverageLimit(markets[i].symbol) = 20
           /\ Cardinality(FundingAhead(i)) = 2
           /\ \E k \in 1..Len(emitted) :
                  IsFundingExampleSignal(emitted[k], markets[i]) /\ emitted[k].leverage = 20
           /\ Abs(markets[j].fundingRate) < 1000
           /\ markets[j].volume24h > 1000000

IsSubSeqOf(part, whole) ==
    \E k \in 0..(Len(whole) - Len(part)) : SubSeq(whole, k + 1, k + Len(part)) = part

C17_NotifierFailureChangesNothing ==
    lastOp = "scan" =>
        /\ emitted = RunStrategies(markets, config, clock)
        /\ \A k \in 1..Len(logged) : logged[k] \in {"notifier", "momentumStrategy"}
        /\ \A s \in Symbols : activePositions[s] = <<>>
        /\ heap = <<>> /\ pending = <<>> /\ closes = <<>>

\* The notifier failed on the first of two signals and the second was still kept.
C17_Witness ==
    /\ lastOp = "scan"
    /\ Len(emitted) >= 2
    /\ logged # <<>>
    /\ logged[1] = "notifier"

\* The part of a market summary the exit checks of the monitor read.
PartialSummary(m) ==
    [price |-> m.price,
     change1m |-> IF m.change1m = Absent THEN Undef ELSE m.change1m[1],
     liquidations24h |-> IF m.liquidations24h = Absent THEN Undef
                         ELSE m.liquidations24h[1].total]

MarketsOf(symbol) == {i \in 1..Len(markets) : markets[i].symbol = symbol}

NoSignalOf(strategy, symbol) ==
    \A k \in 1..Len(emitted) :
        ~(emitted[k].strategy = strategy /\ emitted[k].symbol = symbol)

-----------------------------------------------------------------------------
(* Shutdown: properties *)

OpenSlots == UNION {{<<s, i>> : i \in 1..Len(activePositions[s])} : s \in Symbols}

\* C19: the shutdown handler reports the open positions and closes none of them:
\* across the handler's step the open positions and their objects are the same,
\* no close is emitted, and the report has exactly one line per open position.
C19_ShutdownClosesNothing ==
    [][lastOp' = "shutdown" /\ lastOp # "shutdown" =>
          /\ activePositions' = activePositions
          /\ heap' = heap
          /\ closes' = <<>>
          /\ Len(logged') = Cardinality(OpenSlots)
          /\ \A p \in OpenSlots : \E n \in 1..Len(logged') :
                 logged'[n] = [symbol |-> p[1],
                               direction |-> heap[activePositions[p[1]][p[2]]].direction,
                               entryPrice |-> heap[activePositions[p[1]][p[2]]].entryPrice]]_vars

C19_Witness == lastOp = "shutdown" /\ OpenSlots # {} /\ Len(logged) = Cardinality(OpenSlots)

-----------------------------------------------------------------------------
(* Signal ranker: risk/reward *)

\* Distances from the entry, times 100 * entryPrice: from the prices when the
\* candidate gives prices, from the percentages otherwise.
RewardDistance(signal) ==
    IF signal.targetPrice # Undef THEN 100 * Abs(signal.targetPrice - signal.entryPrice)
    ELSE signal.takeProfitPercent * signal.entryPrice

RiskDistance(signal) ==
    IF signal.stopLoss # Undef THEN 100 * Abs(signal.entryPrice - signal.stopLoss)
    ELSE signal.stopLossPercent * signal.entryPrice

\* C20: the risk/reward ratio of every ranked signal is its reward distance divided
\* by its risk distance, and 0 when the risk distance is 0, for candidates that give
\* target and stop as prices as for candidates that give them as percentages.
C20_RiskRewardIsDistanceRatio ==
    lastOp = "rank" =>
        \A i \in 1..Len(ranked) :
            LET r == ranked[i]
            IN  IF RiskDistance(r.signal) = 0 THEN r.riskRewardRatio.num = 0
                ELSE r.riskRewardRatio.num * RiskDistance(r.signal)
                         = r.riskRewardRatio.den * RewardDistance(r.signal)

-----------------------------------------------------------------------------
(* Position lifecycle: further properties *)

\* C21: every close of a step removes from the open set the position whose exit
\* condition fired, and reports that position's entry price and holding duration.
C21_CloseRemovesEvaluatedPosition ==
    \A c \in 1..Len(closes) :
        closes[c].removed # 0 =>
            /\ closes[c].removed = closes[c].evaluated
            /\ \E k \in 1..Len(evals) :
                   /\ evals[k].id = closes[c].evaluated
                   /\ closes[c].entryPrice = evals[k].entryPrice
                   /\ closes[c].duration = evals[k].elapsed

Opposite(direction) == IF direction = "LONG" THEN "SHORT" ELSE "LONG"

\* C22: a position is closed with reason opposite_signal only when the most recent
\* signal of its symbol whose order opened a position has the opposite direction.
C22_OppositeSignalFromOpenedPosition ==
    \A c \in 1..Len(closes) :
        (closes[c].reason = "opposite_signal" /\ closes[c].removed # 0) =>
            lastOpened[closes[c].symbol] = Opposite(closes[c].direction)

\* The stop the trailing percentage puts under (LONG) or over (SHORT) a price.
TrailLevel(direction, price) ==
    IF direction = "LONG" THEN (price \div 1000) * (1000 - TrailingPerMille)
    ELSE (price \div 1000) * (1000 + TrailingPerMille)

\* The best trailing level of a position so far: its trailing stop, and before the
\* first one the stop it was opened with.
BestLevel(pos) == IF pos.trailingStop # Undef THEN pos.trailingStop ELSE pos.stopLoss

\* C23: a step changes the stop of a position only when it evaluates the position
\* at a price whose trailing level is beyond the position's best level so far, and
\* the stop then becomes that trailing level; in every other case the stop the
\* position carried into the step, the signal's stop included, is unchanged.
C23_StopTightenedOnlyBeyondBestLevel ==
    [][\A id \in (DOMAIN heap) \cap (DOMAIN heap') :
           heap'[id].stopLoss # heap[id].stopLoss =>
               \E k \in 1..Len(evals') :
                   /\ evals'[k].id = id
                   /\ heap'[id].stopLoss = TrailLevel(heap[id].direction, evals'[k].price)
                   /\ heap[id].direction = "LONG" =>
                          /\ heap'[id].stopLoss > BestLevel(heap[id])
                          /\ heap'[id].stopLoss > heap[id].stopLoss
                   /\ heap[id].direction = "SHORT" =>
                          /\ heap'[id].stopLoss < BestLevel(heap[id])
                          /\ heap'[id].stopLoss < heap[id].stopLoss]_vars

\* Both cases after an evaluation that closed nothing: a position whose stop is the
\* trailing level of the price, and one that keeps the stop of its signal although
\* it has a trailing level.
C23_Witness ==
    \E k \in 1..Len(evals) :
        /\ evals[k].reason = "none"
        /\ evals[k].id \in DOMAIN heap
        /\ heap[evals[k].id].trailingStop # Undef
        /\ heap[evals[k].id].stopLoss = TrailLevel(evals[k].direction, evals[k].price)
        /\ heap[evals[k].id].stopLoss \notin {980000000, 1010000000}

\* C24: a step closes a position with reason take_profit only at a price that has
\* reached the target of the position it closes: at or above it for a LONG, at or
\* below it for a SHORT.
C24_TakeProfitOnlyAtTarget ==
    [][\A c \in 1..Len(closes') :
           (closes'[c].reason = "take_profit" /\ closes'[c].removed \in DOMAIN heap) =>
               LET pos == heap[closes'[c].removed]
               IN  /\ pos.direction = "LONG" => closes'[c].closePrice >= pos.targetPrice
                   /\ pos.direction = "SHORT" => closes'[c].closePrice <= pos.targetPrice]_vars

\* A pass over the positions has run to its end.
PassComplete == lastOp \in {"update", "resume"} /\ monitors = <<>>

\* C25: once a pass is complete, no open LONG of a symbol with a price has the
\* price at or below liquidationPrice * (1 + buffer), and no open SHORT has it at
\* or above liquidationPrice * (1 - buffer).
C25_NoneOpenInsideLiquidationBuffer ==
    PassComplete =>
        \A s \in Symbols : marketState[s].price # Undef =>
            \A id \in OpenIds(s) :
                LET pos == heap[id]
                    liq == calcLiquidationPrice(pos.entryPrice, pos.leverage, pos.direction)
                IN  /\ pos.direction = "LONG" =>
                           ~(marketState[s].price
                                 <= (liq \div 1000) * (1000 + LiquidationBufferPerMille))
                    /\ pos.direction = "SHORT" =>
                           ~(marketState[s].price
                                 >= (liq \div 1000) * (1000 - LiquidationBufferPerMille))

\* C26: once a pass is complete, every position still open on a symbol with a
\* price has the direction of the last signal recorded for the symbol, so that the
\* symbol has no open LONG together with an open SHORT.
C26_OpenPositionsFollowLastSignal ==
    PassComplete =>
        \A s \in Symbols : marketState[s].price # Undef =>
            /\ \A id \in OpenIds(s) : heap[id].direction = lastSignals[s]
            /\ \A a, b \in OpenIds(s) : heap[a].direction = heap[b].direction

\* A pass that closed a position and was resumed leaves another position of a
\* priced symbol open.
C26_Witness ==
    /\ PassComplete
    /\ lastOp = "resume"
    /\ \E k \in 1..Len(evals) :
           /\ evals[k].reason = "none"
           /\ evals[k].id \in OpenIds(evals[k].symbol)
           /\ lastOpened[evals[k].symbol] = evals[k].direction

PendingOf(pend, s) == SelectSeq(pend, LAMBDA o : o.symbol = s)

\* C27: a step of a pass skips every symbol whose market state has no price: it
\* accepts no signal for it (last signal and orders in flight of the symbol are as
\* before), evaluates and closes none of its positions and leaves them as they
\* were; the symbols that have a price are processed all the same: a pass that
\* starts with an open position on a priced symbol evaluates one.
C27_UnpricedSymbolIsSkipped ==
    [][lastOp' \in {"update", "resume"} =>
          /\ \A s \in Symbols : marketState'[s].price = Undef =>
                 /\ lastSignals'[s] = lastSignals[s]
                 /\ PendingOf(pending', s) = PendingOf(pending, s)
                 /\ activePositions'[s] = activePositions[s]
                 /\ \A id \in OpenIds(s) : id \in DOMAIN heap' /\ heap'[id] = heap[id]
                 /\ \A k \in 1..Len(evals') : evals'[k].symbol # s
                 /\ \A c \in 1..Len(closes') : closes'[c].symbol # s
          /\ (lastOp' = "update" /\ monitors = <<>>
               /\ \E s \in Symbols : marketState'[s].price # Undef /\ OpenIds(s) # {})
              => evals' # <<>>]_vars

\* A symbol without a price keeps its open position through a step that evaluates
\* a position of the other symbol.
C27_Witness ==
    /\ lastOp = "update"
    /\ \E s \in Symbols :
           /\ marketState[s].price = Undef
           /\ OpenIds(s) # {}
           /\ actKeys[1] = s
           /\ \E k \in 1..Len(evals) : evals[k].symbol # s

-----------------------------------------------------------------------------
(* Persistence of the signals of a scan *)

RECURSIVE CountOf(_, _)
CountOf(seq, x) ==
    IF seq = <<>> THEN 0 ELSE (IF Head(seq) = x THEN 1 ELSE 0) + CountOf(Tail(seq), x)

\* C28: when the database refuses a signal of a scan the failure is logged and the
\* scan goes on: the scan is not aborted, and every other signal of the scan is
\* persisted, in the order of the scan.
C28_SaveFailureDoesNotAbortScan ==
    lastOp = "scan" =>
        /\ CountOf(logged, "trading system") = 0
        /\ IsSubSeqOf(emitted, RunStrategies(markets, config, clock))
        /\ Len(emitted) + CountOf(logged, "saveTradeSignal")
               = Len(RunStrategies(markets, config, clock))

\* ---------------------------------------------------------------------------
\* Leverage of the funding signals
\* ---------------------------------------------------------------------------

\* C29: every signal of the funding strategy carries a leverage that is a whole
\* number, whatever the symbol and the funding rate of its market.
C29_LeverageIsInteger ==
    lastOp = "funding" =>
        \A k \in 1..Len(emitted) :
            emitted[k].strategy = "fundingRateStrategy" => emitted[k].leverageTenths % 10 = 0

\* ---------------------------------------------------------------------------
\* Strategy weight of the ranked signals
\* ---------------------------------------------------------------------------

\* C30: a ranked signal of a strategy that has an entry in STRATEGY_WEIGHTS carries
\* the weight of that entry, and a ranked signal of a strategy without an entry
\* carries the default weight 0.3.
C30_TableStrategyGetsTableWeight ==
    \A k \in 1..Len(ranked) :
        LET signal == ranked[k].signal
        IN  "strategy" \in DOMAIN signal =>
                ranked[k].strategyWeight =
                    (IF TableEntry(signal.strategy) # "none"
                     THEN STRATEGY_WEIGHTS(TableEntry(signal.strategy)) ELSE 300)

====
